---- MODULE Spec2Model ----
(***************************************************************************)
(* Model of the ZATCA direct-mode point-of-sale add-on                     *)
(* (amr-devops/l10n_sa_edi_pos_direct).                                    *)
(*                                                                         *)
(* The repository carries the add-on twice:                                *)
(*   build "root"  : src/static/src/overrides/models/{pos_order,pos_store} *)
(*   build "addon" : src/l10n_sa_edi_pos_direct/static/src/overrides/...   *)
(*                   with the store patch of src/unnamed/part_000          *)
(* Both patch the same PosOrder prototype; the variable `build` says which *)
(* of the two is loaded.                                                   *)
(*                                                                         *)
(* JavaScript strings are sequences of UTF-16 code units (naturals); a     *)
(* sequence written as a function [i \in 1..n |-> e] is joined with <<>>   *)
(* so that it is held as a tuple, and a value that is used more than once  *)
(* is bound as the argument of a local operator.                           *)
(* undefined and null are the two sentinels UNDEFINED and NULL, which keep *)
(* every optional string comparable with every other.                      *)
(***************************************************************************)
EXTENDS Integers, Sequences, FiniteSets, TLC

(***************************************************************************)
(* JavaScript values                                                       *)
(***************************************************************************)
UNDEFINED == <<-1>>
NULL == <<-2>>

\* !!x for an optional string: undefined, null and "" are falsy
Truthy(x) == x # UNDEFINED /\ x # NULL /\ x # <<>>

\* String(x), as string concatenation and template literals coerce
ToStr(x) ==
    IF x = UNDEFINED THEN <<117, 110, 100, 101, 102, 105, 110, 101, 100>>  \* "undefined"
    ELSE IF x = NULL THEN <<110, 117, 108, 108>>                            \* "null"
    ELSE x

\* s.substring(0, n)
Substring(s, n) == IF Len(s) <= n THEN s ELSE SubSeq(s, 1, n)

\* concatenation of a sequence of strings
RECURSIVE Concat(_)
Concat(ss) == IF ss = <<>> THEN <<>> ELSE Head(ss) \o Concat(Tail(ss))

\* one decimal digit as a character
Digit(d) == 48 + d

\* String(n) for a natural n
RECURSIVE NatToStr(_)
NatToStr(n) == IF n < 10 THEN <<Digit(n)>> ELSE NatToStr(n \div 10) \o <<Digit(n % 10)>>

\* Amounts are JavaScript numbers with at most two decimals, held as a count
\* of hundredths.  String(x) / JSON.stringify(x): shortest decimal form.
NumToStr(c) ==
    LET a == IF c < 0 THEN -c ELSE c
        whole == NatToStr(a \div 100)
        frac == a % 100
        tail == IF frac = 0 THEN <<>>
                ELSE IF frac % 10 = 0 THEN <<46, Digit(frac \div 10)>>
                ELSE <<46, Digit(frac \div 10), Digit(frac % 10)>>
    IN  (IF c < 0 THEN <<45>> ELSE <<>>) \o whole \o tail

\* x.toFixed(2)
ToFixed2(c) ==
    LET a == IF c < 0 THEN -c ELSE c
    IN  (IF c < 0 THEN <<45>> ELSE <<>>) \o NatToStr(a \div 100)
            \o <<46, Digit((a % 100) \div 10), Digit(a % 10)>>

\* a < b in code-unit order, the order of Array.prototype.sort() on strings
LexLess(a, b) ==
    LET m == IF Len(a) < Len(b) THEN Len(a) ELSE Len(b)
        differ == {i \in 1..m : a[i] # b[i]}
    IN  IF differ = {} THEN Len(a) < Len(b)
        ELSE LET d == CHOOSE i \in differ : \A j \in differ : i <= j
             IN  a[d] < b[d]

(***************************************************************************)
(* TextEncoder, btoa                                                       *)
(***************************************************************************)
\* the UTF-8 bytes of one code unit of the Basic Multilingual Plane
Utf8OfUnit(c) ==
    IF c < 128 THEN <<c>>
    ELSE IF c < 2048 THEN <<192 + (c \div 64), 128 + (c % 64)>>
    ELSE <<224 + (c \div 4096), 128 + ((c \div 64) % 64), 128 + (c % 64)>>

\* new TextEncoder().encode(str)
RECURSIVE Utf8OfRange(_, _, _)
Utf8OfRange(s, lo, hi) ==
    IF lo > hi THEN <<>>
    ELSE IF lo = hi THEN Utf8OfUnit(s[lo])
    ELSE LET mid == (lo + hi) \div 2
         IN  Utf8OfRange(s, lo, mid) \o Utf8OfRange(s, mid + 1, hi)
\* encode() without an argument value (undefined) encodes the empty string
TextEncoderEncode(s) ==
    LET str == ToStr(s)
    IN  IF s = UNDEFINED THEN <<>>
        ELSE IF \A i \in 1..Len(str) : str[i] < 128 THEN str      \* ASCII: one byte each
        ELSE Utf8OfRange(str, 1, Len(str))

\* the base64 alphabet A-Z a-z 0-9 + /
B64Char(v) ==
    IF v < 26 THEN 65 + v
    ELSE IF v < 52 THEN 97 + (v - 26)
    ELSE IF v < 62 THEN 48 + (v - 52)
    ELSE IF v = 62 THEN 43
    ELSE 47

\* the largest code unit btoa accepts (Latin-1), hence the largest length
\* that fits the length byte of a field
MaxByte == 255

\* btoa throws InvalidCharacterError on a code unit above MaxByte
BtoaThrows(s) == \E i \in 1..Len(s) : s[i] > MaxByte

\* btoa(s) for a binary string s (every unit at most 255)
Btoa(s) ==
    LET n == Len(s)
        groups == (n + 2) \div 3
        byte(i) == IF i <= n THEN s[i] ELSE 0
        char(k) ==
            LET g == (k + 3) \div 4
                r == (k - 1) % 4
                b1 == byte(3 * g - 2)
                b2 == byte(3 * g - 1)
                b3 == byte(3 * g)
                have == n - (3 * g - 3)
            IN  IF r = 0 THEN B64Char(b1 \div 4)
                ELSE IF r = 1 THEN B64Char((b1 % 4) * 16 + (b2 \div 16))
                ELSE IF r = 2
                THEN (IF have >= 2 THEN B64Char((b2 % 16) * 4 + (b3 \div 64)) ELSE 61)
                ELSE (IF have >= 3 THEN B64Char(b3 % 64) ELSE 61)
    IN  [k \in 1..(4 * groups) |-> char(k)] \o <<>>

\* atob(s): the binary string a padded base64 text stands for
B64Value(c) ==
    IF c >= 65 /\ c <= 90 THEN c - 65
    ELSE IF c >= 97 /\ c <= 122 THEN c - 97 + 26
    ELSE IF c >= 48 /\ c <= 57 THEN c - 48 + 52
    ELSE IF c = 43 THEN 62
    ELSE IF c = 47 THEN 63
    ELSE 0
Atob(s) ==
    LET n == Len(s)
        pad == IF n >= 2 /\ s[n - 1] = 61 THEN 2 ELSE IF n >= 1 /\ s[n] = 61 THEN 1 ELSE 0
        six(i) == B64Value(s[i])
        byte(k) ==
            LET g == 4 * ((k - 1) \div 3)
                r == (k - 1) % 3
            IN  IF r = 0 THEN six(g + 1) * 4 + (six(g + 2) \div 16)
                ELSE IF r = 1 THEN (six(g + 2) % 16) * 16 + (six(g + 3) \div 4)
                ELSE (six(g + 3) % 4) * 64 + six(g + 4)
    IN  [k \in 1..(3 * (n \div 4) - pad) |-> byte(k)] \o <<>>

\* s.replace(/[^A-Za-z0-9]/g, '')
IsAlnum(c) == (c >= 48 /\ c <= 57) \/ (c >= 65 /\ c <= 90) \/ (c >= 97 /\ c <= 122)
StripNonAlnum(s) == SelectSeq(s, IsAlnum)

(***************************************************************************)
(* JSON values: [t |-> tag, v |-> payload]                                 *)
(*   "obj"  v = sequence of [k |-> key, val |-> value], in insertion order *)
(*   "arr"  v = sequence of values                                         *)
(*   "str"  v = the string                                                 *)
(*   "num"  v = <<hundredths>>                                             *)
(*   "null" / "undef"  v = <<>>                                            *)
(* Keys are never integer-like, so property order is insertion order.      *)
(***************************************************************************)
JObj(members) == [t |-> "obj", v |-> members]
JArr(items) == [t |-> "arr", v |-> items]
JStr(s) == [t |-> "str", v |-> s]
JNum(c) == [t |-> "num", v |-> <<c>>]
JNull == [t |-> "null", v |-> <<>>]
JUndef == [t |-> "undef", v |-> <<>>]
KV(key, value) == [k |-> key, val |-> value]

\* an optional string as a JSON value
JOpt(x) == IF x = UNDEFINED THEN JUndef ELSE IF x = NULL THEN JNull ELSE JStr(x)

\* JSON.stringify of a string: quotes, with " and \ escaped.  The model's
\* strings carry no control characters, which would be escaped as well.
RECURSIVE EscapeRange(_, _, _)
EscapeRange(s, lo, hi) ==
    IF lo > hi THEN <<>>
    ELSE IF lo = hi THEN (IF s[lo] = 34 \/ s[lo] = 92 THEN <<92, s[lo]>> ELSE <<s[lo]>>)
    ELSE LET mid == (lo + hi) \div 2
         IN  EscapeRange(s, lo, mid) \o EscapeRange(s, mid + 1, hi)
QuoteString(s) ==
    IF \A i \in 1..Len(s) : s[i] # 34 /\ s[i] # 92 THEN <<34>> \o s \o <<34>>
    ELSE <<34>> \o EscapeRange(s, 1, Len(s)) \o <<34>>

\* JSON.stringify(value) without indentation.  A property whose value is
\* undefined is left out; undefined inside an array prints as null.
RECURSIVE JSONStringify(_)
RECURSIVE StringifyMembers(_, _)
RECURSIVE StringifyItems(_, _)
StringifyMembers(ms, first) ==
    IF ms = <<>> THEN <<>>
    ELSE IF Head(ms).val.t = "undef" THEN StringifyMembers(Tail(ms), first)
    ELSE (IF first THEN <<>> ELSE <<44>>)
            \o QuoteString(Head(ms).k) \o <<58>> \o JSONStringify(Head(ms).val)
            \o StringifyMembers(Tail(ms), FALSE)
StringifyItems(xs, first) ==
    IF xs = <<>> THEN <<>>
    ELSE (IF first THEN <<>> ELSE <<44>>)
            \o JSONStringify(Head(xs)) \o StringifyItems(Tail(xs), FALSE)
JSONStringify(x) ==
    IF x.t = "obj" THEN <<123>> \o StringifyMembers(x.v, TRUE) \o <<125>>
    ELSE IF x.t = "arr" THEN <<91>> \o StringifyItems(x.v, TRUE) \o <<93>>
    ELSE IF x.t = "str" THEN QuoteString(x.v)
    ELSE IF x.t = "num" THEN NumToStr(x.v[1])
    ELSE <<110, 117, 108, 108>>

(***************************************************************************)
(* String.prototype.replace with the three patterns of the canonicalizer   *)
(***************************************************************************)
\* the class \s of JavaScript regular expressions
IsSpace(c) ==
    IF c < 160 THEN c = 32 \/ (c >= 9 /\ c <= 13)
    ELSE \/ c \in {160, 5760, 8232, 8233, 8239, 8287, 12288, 65279}
         \/ (c >= 8192 /\ c <= 8202)

\* the subsequence of s at the indices that satisfy keep
KeepIndices(s, keep(_)) ==
    LET pick(idx) == [k \in 1..Len(idx) |-> s[idx[k]]] \o <<>>
    IN  pick(SelectSeq([i \in 1..Len(s) |-> i], keep))

\* s.replace(/\s+/g, ' ')
CollapseWhitespace(s) ==
    LET first(i) == ~IsSpace(s[i]) \/ i = 1 \/ ~IsSpace(s[i - 1])
        pick(idx) ==
            [k \in 1..Len(idx) |-> IF IsSpace(s[idx[k]]) THEN 32 ELSE s[idx[k]]] \o <<>>
    IN  pick(SelectSeq([i \in 1..Len(s) |-> i], first))

\* the first index from i upwards (downwards) that holds no whitespace, or 0
RECURSIVE NextNonSpace(_, _)
NextNonSpace(s, i) ==
    IF i > Len(s) THEN 0 ELSE IF IsSpace(s[i]) THEN NextNonSpace(s, i + 1) ELSE i
RECURSIVE PrevNonSpace(_, _)
PrevNonSpace(s, i) ==
    IF i < 1 THEN 0 ELSE IF IsSpace(s[i]) THEN PrevNonSpace(s, i - 1) ELSE i

\* s.replace(/,\s*X/g, 'X') for the closing character X: a match is a comma,
\* a run of whitespace and X; matches cannot overlap, and each loses its
\* comma and its whitespace.
RemoveCommaBefore(s, closer) ==
    LET inMatch(i) ==
            /\ s[i] = 44 \/ IsSpace(s[i])
            /\ LET p == PrevNonSpace(s, i) IN p # 0 /\ s[p] = 44
            /\ LET n == NextNonSpace(s, i + 1) IN n # 0 /\ s[n] = closer
    IN  KeepIndices(s, LAMBDA i : ~inMatch(i))

\* s.trim()
Trim(s) ==
    LET a == NextNonSpace(s, 1)
        b == PrevNonSpace(s, Len(s))
    IN  IF a = 0 THEN <<>> ELSE SubSeq(s, a, b)

(***************************************************************************)
(* Canonicalizer                                                           *)
(***************************************************************************)
\* Object.keys(obj).sort(), then one assignment per key in that order
SortMembers(ms) ==
    LET n == Len(ms)
        place(rank) == [p \in 1..n |-> ms[CHOOSE i \in 1..n : rank[i] = p - 1]] \o <<>>
    IN  place([i \in 1..n |-> Cardinality({j \in 1..n : LexLess(ms[j].k, ms[i].k)})]
                \o <<>>)

\* Faulty variant (C4): the keys of the top level are sorted, nested objects keep
\* their insertion order
_sortObjectKeysShallow(obj) ==
    IF obj.t = "obj" THEN JObj(SortMembers(obj.v)) ELSE obj

RECURSIVE _sortObjectKeysRecursively(_)
_sortObjectKeysRecursively(obj) ==
    IF obj.t = "arr"
    THEN JArr([i \in 1..Len(obj.v) |-> _sortObjectKeysRecursively(obj.v[i])] \o <<>>)
    ELSE IF obj.t = "obj"
    THEN LET assign(sorted) ==
                JObj([i \in 1..Len(sorted) |->
                        KV(sorted[i].k, _sortObjectKeysRecursively(sorted[i].val))]
                     \o <<>>)
         IN  assign(SortMembers(obj.v))
    ELSE obj

\* The try branch: neither the sort nor JSON.stringify throws on a tree of
\* plain objects, arrays, strings, numbers and null.
_canonicalizeForZatca(invoiceContent) ==
    LET sortedContent == _sortObjectKeysRecursively(invoiceContent)
        jsonString == JSONStringify(sortedContent)
    IN  Trim(RemoveCommaBefore(RemoveCommaBefore(CollapseWhitespace(jsonString), 125), 93))

(***************************************************************************)
(* JSON.parse, on the grammar JSONStringify writes (objects, arrays,       *)
(* strings with \" and \\, decimal numbers, null), whitespace between      *)
(* tokens allowed.  A result is [ok, val, next]: next is the index after   *)
(* the value.                                                              *)
(***************************************************************************)
ParseFail == [ok |-> FALSE, val |-> JNull, next |-> 0]
ParseOk(value, after) == [ok |-> TRUE, val |-> value, next |-> after]

\* JSON whitespace is space, tab, line feed and carriage return only
RECURSIVE SkipJsonWs(_, _)
SkipJsonWs(s, i) ==
    IF i <= Len(s) /\ s[i] \in {9, 10, 13, 32} THEN SkipJsonWs(s, i + 1) ELSE i

At(s, i) == IF i >= 1 /\ i <= Len(s) THEN s[i] ELSE 0

\* the characters of a string literal from index i (after the opening quote)
RECURSIVE ParseStringBody(_, _, _)
ParseStringBody(s, i, acc) ==
    IF i > Len(s) THEN ParseFail
    ELSE IF s[i] = 34 THEN ParseOk(JStr(acc), i + 1)
    ELSE IF s[i] = 92
    THEN IF At(s, i + 1) \in {34, 92}
         THEN ParseStringBody(s, i + 2, Append(acc, s[i + 1]))
         ELSE ParseFail
    ELSE ParseStringBody(s, i + 1, Append(acc, s[i]))

IsDigit(c) == c >= 48 /\ c <= 57

RECURSIVE DigitsEnd(_, _)
DigitsEnd(s, i) == IF IsDigit(At(s, i)) THEN DigitsEnd(s, i + 1) ELSE i

RECURSIVE DigitsValue(_, _, _)
DigitsValue(s, i, j) ==
    IF j < i THEN 0 ELSE DigitsValue(s, i, j - 1) * 10 + (s[j] - 48)

\* a number with at most two decimals, as hundredths
ParseNumber(s, i) ==
    LET neg == At(s, i) = 45
        a == IF neg THEN i + 1 ELSE i
        b == DigitsEnd(s, a)
        hasFrac == At(s, b) = 46
        c == IF hasFrac THEN DigitsEnd(s, b + 1) ELSE b
        fracLen == IF hasFrac THEN c - (b + 1) ELSE 0
        whole == DigitsValue(s, a, b - 1)
        frac == IF fracLen = 1 THEN 10 * (s[b + 1] - 48)
                ELSE IF fracLen = 2 THEN DigitsValue(s, b + 1, b + 2)
                ELSE 0
        cents == whole * 100 + frac
    IN  IF b = a \/ (hasFrac /\ fracLen \notin {1, 2}) THEN ParseFail
        ELSE ParseOk(JNum(IF neg THEN -cents ELSE cents), c)

RECURSIVE ParseValue(_, _)
RECURSIVE ParseMembers(_, _, _)
RECURSIVE ParseItems(_, _, _)
ParseMembers(s, i0, acc) ==
    LET i == SkipJsonWs(s, i0)
    IN  IF At(s, i) # 34 THEN ParseFail
        ELSE LET key == ParseStringBody(s, i + 1, <<>>)
                 colon == SkipJsonWs(s, key.next)
             IN  IF ~key.ok \/ At(s, colon) # 58 THEN ParseFail
                 ELSE LET value == ParseValue(s, colon + 1)
                          sep == SkipJsonWs(s, value.next)
                          members == Append(acc, KV(key.val.v, value.val))
                      IN  IF ~value.ok THEN ParseFail
                          ELSE IF At(s, sep) = 44 THEN ParseMembers(s, sep + 1, members)
                          ELSE IF At(s, sep) = 125 THEN ParseOk(JObj(members), sep + 1)
                          ELSE ParseFail
ParseItems(s, i0, acc) ==
    LET value == ParseValue(s, i0)
        sep == SkipJsonWs(s, value.next)
        items == Append(acc, value.val)
    IN  IF ~value.ok THEN ParseFail
        ELSE IF At(s, sep) = 44 THEN ParseItems(s, sep + 1, items)
        ELSE IF At(s, sep) = 93 THEN ParseOk(JArr(items), sep + 1)
        ELSE ParseFail
ParseValue(s, i0) ==
    LET i == SkipJsonWs(s, i0)
        c == At(s, i)
    IN  IF c = 123
        THEN IF At(s, SkipJsonWs(s, i + 1)) = 125
             THEN ParseOk(JObj(<<>>), SkipJsonWs(s, i + 1) + 1)
             ELSE ParseMembers(s, i + 1, <<>>)
        ELSE IF c = 91
        THEN IF At(s, SkipJsonWs(s, i + 1)) = 93
             THEN ParseOk(JArr(<<>>), SkipJsonWs(s, i + 1) + 1)
             ELSE ParseItems(s, i + 1, <<>>)
        ELSE IF c = 34 THEN ParseStringBody(s, i + 1, <<>>)
        ELSE IF c = 110
        THEN IF i + 3 <= Len(s) /\ SubSeq(s, i, i + 3) = <<110, 117, 108, 108>>
             THEN ParseOk(JNull, i + 4)
             ELSE ParseFail
        ELSE IF c = 45 \/ IsDigit(c) THEN ParseNumber(s, i)
        ELSE ParseFail

\* JSON.parse(text): the value, provided nothing but whitespace follows it
JSONParse(text) ==
    LET r == ParseValue(text, 1)
    IN  IF r.ok /\ SkipJsonWs(text, r.next) = Len(text) + 1 THEN r ELSE ParseFail

(***************************************************************************)
(* TLV / QR encoder                                                        *)
(***************************************************************************)
\* Faulty variant (C7): the length byte counts UTF-16 code units, not UTF-8 bytes
_compute_qr_code_field_charLength(tag, field) ==
    <<tag, Len(ToStr(field))>> \o TextEncoderEncode(field)

\* [tag] ++ [byte length] ++ the UTF-8 bytes, as an array of numbers
_compute_qr_code_field(tag, field) ==
    LET name_byte_array == TextEncoderEncode(field)
    IN  <<tag, Len(name_byte_array)>> \o name_byte_array

\* binary += String.fromCharCode(array[i]) for every element, then
\* btoa(binary): an element above 255 becomes a code unit btoa rejects
BinaryToBase64(array) ==
    IF BtoaThrows(array) THEN [threw |-> TRUE, value |-> <<>>]
    ELSE [threw |-> FALSE, value |-> Btoa(array)]

\* a buffer read as repeated (tag byte, length byte, value bytes)
RECURSIVE ReadTLV(_, _, _)
ReadTLV(buffer, i, acc) ==
    IF i > Len(buffer) THEN [fields |-> acc, leftover |-> 0]
    ELSE IF i + 1 > Len(buffer) \/ i + 1 + buffer[i + 1] > Len(buffer)
    THEN [fields |-> acc, leftover |-> Len(buffer) - i + 1]
    ELSE ReadTLV(buffer, i + 2 + buffer[i + 1],
                 Append(acc, [tag |-> buffer[i], length |-> buffer[i + 1],
                              bytes |-> SubSeq(buffer, i + 2, i + 1 + buffer[i + 1])]))

\* the tags of a base64 payload
PayloadTags(payload) ==
    LET tags(read) == [i \in 1..Len(read.fields) |-> read.fields[i].tag] \o <<>>
    IN  tags(ReadTLV(Atob(payload), 1, <<>>))

(***************************************************************************)
(* State                                                                   *)
(***************************************************************************)
VARIABLES
    build,      \* which copy of the add-on is loaded: "root" or "addon"
    window,     \* the browser: ZXing writer, crypto.subtle, local UTC offset
    company,    \* order.company: country code, name, vat
    config,     \* the pos.config record: direct-mode flag, zatca_certificate
    order,      \* the PosOrder: partner, identifiers, date, lines, payments
    models,     \* first records of zatca.certificate and pos.session
    clock,      \* the wall clock, in ticks
    ret,        \* what the last handler call returned
    subject,    \* the argument(s) a pure function of the add-on is applied to
    outcome,    \* what the function returned, by stage
    ticket,     \* the TicketScreen's refund: popup, destination order, promise
    store       \* the PosStore: zatca_config, zatca_certificate, the load

posVars == <<build, window, company, config, order, models, clock, ret>>
pureVars == <<subject, outcome>>
uiVars == <<ticket, store>>
vars == <<build, window, company, config, order, models, clock, ret, subject, outcome,
          ticket, store>>

(***************************************************************************)
(* String literals of the source, as code units                            *)
(***************************************************************************)
K_uuid == <<117, 117, 105, 100>>  \* "uuid"
K_invoice_number == <<105, 110, 118, 111, 105, 99, 101, 95, 110, 117, 109, 98, 101, 114>>  \* "invoice_number"
K_issue_date == <<105, 115, 115, 117, 101, 95, 100, 97, 116, 101>>  \* "issue_date"
K_issue_time == <<105, 115, 115, 117, 101, 95, 116, 105, 109, 101>>  \* "issue_time"
K_seller_name == <<115, 101, 108, 108, 101, 114, 95, 110, 97, 109, 101>>  \* "seller_name"
K_seller_vat == <<115, 101, 108, 108, 101, 114, 95, 118, 97, 116>>  \* "seller_vat"
K_customer_type == <<99, 117, 115, 116, 111, 109, 101, 114, 95, 116, 121, 112, 101>>  \* "customer_type"
K_customer_name == <<99, 117, 115, 116, 111, 109, 101, 114, 95, 110, 97, 109, 101>>  \* "customer_name"
K_customer_id == <<99, 117, 115, 116, 111, 109, 101, 114, 95, 105, 100>>  \* "customer_id"
K_line_extension_amount == <<108, 105, 110, 101, 95, 101, 120, 116, 101, 110, 115, 105, 111, 110, 95, 97, 109, 111, 117, 110, 116>>  \* "line_extension_amount"
K_tax_exclusive_amount == <<116, 97, 120, 95, 101, 120, 99, 108, 117, 115, 105, 118, 101, 95, 97, 109, 111, 117, 110, 116>>  \* "tax_exclusive_amount"
K_tax_inclusive_amount == <<116, 97, 120, 95, 105, 110, 99, 108, 117, 115, 105, 118, 101, 95, 97, 109, 111, 117, 110, 116>>  \* "tax_inclusive_amount"
K_tax_amount == <<116, 97, 120, 95, 97, 109, 111, 117, 110, 116>>  \* "tax_amount"
K_payable_amount == <<112, 97, 121, 97, 98, 108, 101, 95, 97, 109, 111, 117, 110, 116>>  \* "payable_amount"
K_invoice_lines == <<105, 110, 118, 111, 105, 99, 101, 95, 108, 105, 110, 101, 115>>  \* "invoice_lines"
K_payment_means == <<112, 97, 121, 109, 101, 110, 116, 95, 109, 101, 97, 110, 115>>  \* "payment_means"
K_id == <<105, 100>>  \* "id"
K_product_name == <<112, 114, 111, 100, 117, 99, 116, 95, 110, 97, 109, 101>>  \* "product_name"
K_quantity == <<113, 117, 97, 110, 116, 105, 116, 121>>  \* "quantity"
K_unit_price == <<117, 110, 105, 116, 95, 112, 114, 105, 99, 101>>  \* "unit_price"
K_line_total_without_tax == <<108, 105, 110, 101, 95, 116, 111, 116, 97, 108, 95, 119, 105, 116, 104, 111, 117, 116, 95, 116, 97, 120>>  \* "line_total_without_tax"
K_line_total_with_tax == <<108, 105, 110, 101, 95, 116, 111, 116, 97, 108, 95, 119, 105, 116, 104, 95, 116, 97, 120>>  \* "line_total_with_tax"
K_tax_rate == <<116, 97, 120, 95, 114, 97, 116, 101>>  \* "tax_rate"
K_method == <<109, 101, 116, 104, 111, 100>>  \* "method"
K_amount == <<97, 109, 111, 117, 110, 116>>  \* "amount"
K_hash == <<104, 97, 115, 104>>  \* "hash"
K_issuer == <<105, 115, 115, 117, 101, 114>>  \* "issuer"
K_timestamp == <<116, 105, 109, 101, 115, 116, 97, 109, 112>>  \* "timestamp"
K_reference == <<114, 101, 102, 101, 114, 101, 110, 99, 101>>  \* "reference"
S_named == <<110, 97, 109, 101, 100>>  \* "named"
S_cash == <<99, 97, 115, 104>>  \* "cash"
S_CashCustomer == <<67, 97, 115, 104, 32, 67, 117, 115, 116, 111, 109, 101, 114>>  \* "Cash Customer"
S_ZATCA_FALLBACK == <<90, 65, 84, 67, 65, 95, 70, 65, 76, 76, 66, 65, 67, 75, 95>>  \* "ZATCA_FALLBACK_"
S_ZATCA_MARK == <<90, 65, 84, 67, 65, 58>>  \* "ZATCA:"
S_ZATCA_PUBLIC_KEY == <<90, 65, 84, 67, 65, 95, 80, 85, 66, 76, 73, 67, 95, 75, 69, 89, 95>>  \* "ZATCA_PUBLIC_KEY_"
S_ZATCA_CERT == <<90, 65, 84, 67, 65, 95, 67, 69, 82, 84, 95>>  \* "ZATCA_CERT_"
S_DEFAULT_PUBLIC_KEY == <<68, 69, 70, 65, 85, 76, 84, 95, 80, 85, 66, 76, 73, 67, 95, 75, 69, 89, 95>>  \* "DEFAULT_PUBLIC_KEY_"
S_DEFAULT_CERT_SIG == <<68, 69, 70, 65, 85, 76, 84, 95, 67, 69, 82, 84, 95, 83, 73, 71, 95>>  \* "DEFAULT_CERT_SIG_"
S_InvalidDateTime == <<73, 110, 118, 97, 108, 105, 100, 32, 68, 97, 116, 101, 84, 105, 109, 101>>  \* "Invalid DateTime"

(***************************************************************************)
(* Dates                                                                   *)
(* order.date_order is the serialized UTC string "YYYY-MM-DD HH:MM:SS".    *)
(* The model's dates lie mid-month, so a shift by the UTC offset moves the *)
(* day number by at most one and never leaves the month.                   *)
(***************************************************************************)
Pad2(n) == <<Digit(n \div 10), Digit(n % 10)>>
Pad3(n) == <<Digit(n \div 100), Digit((n \div 10) % 10), Digit(n % 10)>>
Pad4(n) == <<Digit(n \div 1000), Digit((n \div 100) % 10), Digit((n \div 10) % 10), Digit(n % 10)>>

\* the fields of "YYYY-MM-DD HH:MM:SS", or invalid
DateFields(s) ==
    LET shaped == /\ s # UNDEFINED /\ s # NULL /\ Len(s) = 19
                  /\ s[5] = 45 /\ s[8] = 45 /\ s[11] = 32 /\ s[14] = 58 /\ s[17] = 58
                  /\ \A i \in {1, 2, 3, 4, 6, 7, 9, 10, 12, 13, 15, 16, 18, 19} : IsDigit(s[i])
        num(i, j) == DigitsValue(s, i, j)
    IN  IF shaped
        THEN [valid |-> TRUE, y |-> num(1, 4), mo |-> num(6, 7), d |-> num(9, 10),
              h |-> num(12, 13), mi |-> num(15, 16), s |-> num(18, 19)]
        ELSE [valid |-> FALSE, y |-> 0, mo |-> 0, d |-> 0, h |-> 0, mi |-> 0, s |-> 0]

\* the same instant with the hours shifted by delta (a UTC offset)
ShiftHours(f, delta) ==
    LET h == f.h + delta
    IN  IF ~f.valid THEN f
        ELSE IF h < 0 THEN [f EXCEPT !.h = h + 24, !.d = f.d - 1]
        ELSE IF h >= 24 THEN [f EXCEPT !.h = h - 24, !.d = f.d + 1]
        ELSE [f EXCEPT !.h = h]

\* new Date(x), as UTC fields: null is the epoch, undefined and unparsable
\* text are Invalid Date, and text without a zone is read as local time
NewDate(x) ==
    IF x = NULL
    THEN [valid |-> TRUE, y |-> 1970, mo |-> 1, d |-> 1, h |-> 0, mi |-> 0, s |-> 0]
    ELSE ShiftHours(DateFields(x), 0 - window.tzOffset)

\* Date.now() at tick t, as its 13 decimal digits: one tick changes the
\* sixth digit and the last six
DateNow(t) == NatToStr(170000 + t) \o NatToStr(1000000 + 111111 * t)

\* new Date().toISOString() at tick t
IsoNow(t) ==
    <<50, 48, 50, 51, 45, 49, 49, 45>> \o Pad2(14 + t)        \* "2023-11-" dd
        \o <<84, 50, 50, 58, 49, 51, 58, 50, 48, 46>>         \* "T22:13:20."
        \o Pad3((111 * t) % 1000) \o <<90>>                   \* mmm "Z"

\* Faulty variant (C9): the time of the call is formatted, not the order's date
KsaTimestamp_ofNow(date_isostring) ==
    LET f == ShiftHours(DateFields(<<50, 48, 50, 51, 45, 49, 49, 45>> \o Pad2(14 + clock)
                                      \o <<32, 50, 50, 58, 49, 51, 58, 50, 48>>), 3)
    IN  Pad4(f.y) \o <<45>> \o Pad2(f.mo) \o <<45>> \o Pad2(f.d) \o <<32>>
            \o Pad2(f.h) \o <<58>> \o Pad2(f.mi) \o <<58>> \o Pad2(f.s)

\* formatDateTime(deserializeDateTime(s), {tz: "Asia/Riyadh",
\* format: "yyyy-MM-dd HH:mm:ss"}): the text is read as UTC and shown at
\* UTC+3; an unparsable value formats as luxon's "Invalid DateTime"
KsaTimestamp(date_isostring) ==
    LET f == ShiftHours(DateFields(date_isostring), 3)
    IN  IF ~f.valid THEN S_InvalidDateTime
        ELSE Pad4(f.y) \o <<45>> \o Pad2(f.mo) \o <<45>> \o Pad2(f.d) \o <<32>>
                \o Pad2(f.h) \o <<58>> \o Pad2(f.mi) \o <<58>> \o Pad2(f.s)

(***************************************************************************)
(* PosOrder: mode selection                                                *)
(***************************************************************************)
isSACompany == company.country = "SA"

\* Faulty variant (C1): the customer's company_type is not looked at
isSimplifiedInvoice_anyCustomer ==
    ~order.partner_id.present \/ order.partner_id.company_type \in {"person", "company"}

isSimplifiedInvoice ==
    ~order.partner_id.present \/ order.partner_id.company_type = "person"

\* root build only; every test sits in a try that returns false on error
_validateZatcaRequirements ==
    /\ window.ZXing
    /\ window.cryptoSubtle
    /\ Truthy(company.name)
    /\ Truthy(company.vat)

shouldUsedirectMode ==
    IF build = "root"
    THEN /\ isSACompany
         /\ config.l10n_sa_edi_pos_direct_mode_enabled
         /\ isSimplifiedInvoice
         /\ _validateZatcaRequirements
    ELSE /\ isSACompany
         /\ config.l10n_sa_edi_pos_direct_mode_enabled
         /\ isSimplifiedInvoice

(***************************************************************************)
(* PosOrder: totals, content object                                        *)
(***************************************************************************)
RECURSIVE SumSeq(_)
SumSeq(xs) == IF xs = <<>> THEN 0 ELSE Head(xs) + SumSeq(Tail(xs))

get_total_with_tax == SumSeq([i \in 1..Len(order.lines) |-> order.lines[i].price_with_tax])
get_total_tax == SumSeq([i \in 1..Len(order.lines) |-> order.lines[i].tax])
get_total_without_tax ==
    SumSeq([i \in 1..Len(order.lines) |-> order.lines[i].price_without_tax])

\* new Date(this.date_order).toISOString().split('T')[0]; toISOString
\* throws RangeError on an Invalid Date
_getZatcaFormattedDate ==
    LET date == NewDate(order.date_order)
    IN  IF ~date.valid THEN [threw |-> TRUE, value |-> <<>>]
        ELSE [threw |-> FALSE,
              value |-> Pad4(date.y) \o <<45>> \o Pad2(date.mo) \o <<45>> \o Pad2(date.d)]

\* new Date(this.date_order).toTimeString().split(' ')[0]: local time
_getZatcaFormattedTime ==
    LET date == NewDate(order.date_order)
        local == ShiftHours(date, window.tzOffset)
    IN  IF ~date.valid THEN <<73, 110, 118, 97, 108, 105, 100>>      \* "Invalid"
        ELSE Pad2(local.h) \o <<58>> \o Pad2(local.mi) \o <<58>> \o Pad2(local.s)

\* The first tax's percentage, or 0 when it has none; without tax details,
\* 15.0 for a line that is free of charge.  (The branch between the two,
\* a floating-point quotient, is not taken by the lines of this model:
\* a line without tax details has price 0.)
_getLineTaxRate(line) ==
    IF line.tax_details THEN line.tax_percentage ELSE 1500

\* [threw, value]: the property reads throw TypeError on a line without its
\* product or a payment without its method
_getStandardizedInvoiceContentForHash ==
    LET issue_date == _getZatcaFormattedDate
        partner == order.partner_id
        lineObject(line) ==
            JObj(<< KV(K_id, JNum(100 * line.id)),
                    KV(K_product_name, JOpt(line.product.name)),
                    KV(K_quantity, JNum(line.quantity)),
                    KV(K_unit_price, JNum(line.unit_price)),
                    KV(K_line_total_without_tax, JNum(line.price_without_tax)),
                    KV(K_line_total_with_tax, JNum(line.price_with_tax)),
                    KV(K_tax_amount, JNum(line.tax)),
                    KV(K_tax_rate, JNum(_getLineTaxRate(line))) >>)
        paymentObject(payment) ==
            JObj(<< KV(K_method, JOpt(payment.payment_method_id.name)),
                    KV(K_amount, JNum(payment.amount)) >>)
        content ==
            JObj(<< KV(K_uuid, JOpt(order.uuid)),
                    KV(K_invoice_number, JOpt(order.name)),
                    KV(K_issue_date, JStr(issue_date.value)),
                    KV(K_issue_time, JStr(_getZatcaFormattedTime)),
                    KV(K_seller_name, JOpt(company.name)),
                    KV(K_seller_vat, JOpt(company.vat)),
                    KV(K_customer_type, JStr(IF partner.present THEN S_named ELSE S_cash)),
                    KV(K_customer_name,
                       JStr(IF partner.present /\ Truthy(partner.name)
                            THEN partner.name ELSE S_CashCustomer)),
                    KV(K_customer_id,
                       IF partner.present /\ partner.id # 0
                       THEN JNum(100 * partner.id) ELSE JNull),
                    KV(K_line_extension_amount, JNum(get_total_without_tax)),
                    KV(K_tax_exclusive_amount, JNum(get_total_without_tax)),
                    KV(K_tax_inclusive_amount, JNum(get_total_with_tax)),
                    KV(K_tax_amount, JNum(get_total_tax)),
                    KV(K_payable_amount, JNum(get_total_with_tax)),
                    KV(K_invoice_lines,
                       JArr([i \in 1..Len(order.lines) |-> lineObject(order.lines[i])]
                                \o <<>>)),
                    KV(K_payment_means,
                       JArr([i \in 1..Len(order.payment_ids) |->
                                paymentObject(order.payment_ids[i])] \o <<>>)) >>)
        throws ==
            \/ issue_date.threw
            \/ \E i \in 1..Len(order.lines) : ~order.lines[i].product.present
            \/ \E i \in 1..Len(order.payment_ids) :
                    ~order.payment_ids[i].payment_method_id.present
    IN  IF throws THEN [threw |-> TRUE, value |-> JNull]
        ELSE [threw |-> FALSE, value |-> content]

(***************************************************************************)
(* PosOrder: fingerprint and signature.  A call result is a record with    *)
(* threw (the call left by an exception) and value; fallback records that  *)
(* the value was made by a catch branch.  A value that is used more than   *)
(* once is bound as the argument of a local operator.                      *)
(***************************************************************************)
Returned(v) == [threw |-> FALSE, value |-> v]
Thrown == [threw |-> TRUE, value |-> <<>>]

\* TextEncoder bytes, one code unit per byte, btoa: total on every string
\* (the catch branch of the source is never entered)
_unicodeSafeBase64Encode(str) == Btoa(TextEncoderEncode(str))

\* the byte-to-text step of either build: the add-on's Unicode-safe
\* encoder, or the root copy's bare btoa(str), which rejects non-Latin-1
EncodeBase64(str) ==
    IF build = "addon" THEN Returned(_unicodeSafeBase64Encode(str))
    ELSE IF BtoaThrows(str) THEN Thrown
    ELSE Returned(Btoa(str))

\* this.uuid + this.company.vat + total + Date.now(): the sum is numeric,
\* and NaN, while neither of the first two operands is a string
_generateFallbackHash(now) ==
    LET fallbackData ==
            IF order.uuid = UNDEFINED /\ company.vat = UNDEFINED
            THEN <<78, 97, 78>>                                      \* "NaN"
            ELSE ToStr(order.uuid) \o ToStr(company.vat)
                    \o NumToStr(get_total_with_tax) \o DateNow(now)
        cut(text) == IF text.threw THEN Thrown ELSE Returned(Substring(text.value, 64))
    IN  cut(EncodeBase64(S_ZATCA_FALLBACK \o fallbackData))

\* [threw, value, fallback]: the catch branch returns the fallback hash
calculateInvoiceHashSync(now) ==
    LET rescued(rescue) ==
            [threw |-> rescue.threw, fallback |-> TRUE, value |-> rescue.value]
        encoded(text) ==
            IF text.threw THEN rescued(_generateFallbackHash(now))
            ELSE [threw |-> FALSE, fallback |-> FALSE,
                  value |-> Substring(StripNonAlnum(text.value), 64)]
        built(invoiceContent) ==
            IF invoiceContent.threw THEN rescued(_generateFallbackHash(now))
            ELSE encoded(EncodeBase64(
                    QuoteString(_canonicalizeForZatca(invoiceContent.value))))
    IN  built(_getStandardizedInvoiceContentForHash)

\* the record that is signed, in the key order of the source; a property
\* whose value is undefined is left out by JSON.stringify
_prepareSignatureInputSync(invoiceHash, now) ==
    LET timestamp == IF Truthy(order.date_order) THEN order.date_order ELSE IsoNow(now)
        orderRef == IF Truthy(order.pos_reference) THEN order.pos_reference ELSE order.name
    IN  JObj(<< KV(K_hash, JStr(invoiceHash)),
                KV(K_issuer, JOpt(company.vat)),
                KV(K_timestamp, JStr(timestamp)),
                KV(K_reference, JOpt(orderRef)),
                KV(K_amount, JStr(ToFixed2(get_total_with_tax))) >>)

_generateFallbackSignature ==
    LET orderData == ToStr(company.vat) \o <<95>> \o ToStr(order.pos_reference) \o <<95>>
                        \o NumToStr(get_total_with_tax)
        cut(text) == IF text.threw THEN Thrown
                     ELSE Returned(Substring(StripNonAlnum(text.value), 64))
    IN  cut(EncodeBase64(orderData))

\* Faulty variant (C6): the whole encoding of the signed record is kept
_generateDeterministicSignatureSync_uncut(signatureInput) ==
    LET encoded(text) ==
            IF text.threw THEN [threw |-> TRUE, fallback |-> TRUE, value |-> <<>>]
            ELSE [threw |-> FALSE, fallback |-> FALSE, value |-> StripNonAlnum(text.value)]
    IN  encoded(EncodeBase64(JSONStringify(signatureInput)))

\* [threw, value, fallback]
_generateDeterministicSignatureSync(signatureInput) ==
    LET rescued(rescue) ==
            [threw |-> rescue.threw, fallback |-> TRUE, value |-> rescue.value]
        encoded(text) ==
            IF text.threw THEN rescued(_generateFallbackSignature)
            ELSE [threw |-> FALSE, fallback |-> FALSE,
                  value |-> Substring(StripNonAlnum(text.value), 88)]
    IN  encoded(EncodeBase64(JSONStringify(signatureInput)))

\* [threw, value, fallback, hashFallback]
generateDigitalSignatureSync(now) ==
    LET rescued(rescue, hashFallback) ==
            [threw |-> rescue.threw, fallback |-> TRUE, hashFallback |-> hashFallback,
             value |-> rescue.value]
        signed(signature, hashFallback) ==
            IF signature.threw THEN rescued(_generateFallbackSignature, hashFallback)
            ELSE [threw |-> FALSE, fallback |-> signature.fallback,
                  hashFallback |-> hashFallback,
                  value |-> S_ZATCA_MARK \o signature.value]
        hashed(invoiceHash) ==
            IF invoiceHash.threw THEN rescued(_generateFallbackSignature, TRUE)
            ELSE signed(_generateDeterministicSignatureSync(
                            _prepareSignatureInputSync(invoiceHash.value, now)),
                        invoiceHash.fallback)
    IN  hashed(calculateInvoiceHashSync(now))

(***************************************************************************)
(* PosOrder: certificate resolution.  A certificate record carries         *)
(* present and four optional strings; pos.config's first record is the     *)
(* order's config, the record the store patch writes the certificate to.   *)
(***************************************************************************)
NoCertificate ==
    [present |-> FALSE, public_key |-> UNDEFINED, certificate_signature |-> UNDEFINED,
     serial_number |-> UNDEFINED, certificate_id |-> UNDEFINED]

\* a || b || c on optional strings
FirstTruthy(xs) ==
    IF \E i \in 1..Len(xs) : Truthy(xs[i])
    THEN xs[CHOOSE i \in 1..Len(xs) : Truthy(xs[i]) /\ \A j \in 1..(i - 1) : ~Truthy(xs[j])]
    ELSE UNDEFINED

\* Faulty variant (C10): the configuration's certificate is asked before the
\* dedicated record
getPublicKeySync_configFirst(now) ==
    LET zatcaCert == models.zatcaCertificate
        posConfig == config.zatca_certificate
    IN  IF posConfig.present /\ Truthy(posConfig.public_key)
        THEN [source |-> "pos.config", value |-> Substring(posConfig.public_key, 88)]
        ELSE IF zatcaCert.present /\ Truthy(zatcaCert.public_key)
        THEN [source |-> "zatca.certificate", value |-> Substring(zatcaCert.public_key, 88)]
        ELSE [source |-> "placeholder", value |-> <<>>]

\* [value, source]
getPublicKeySync(now) ==
    LET zatcaCert == models.zatcaCertificate
        posConfig == config.zatca_certificate
        posSession == models.posSession
        derived(placeholder) ==
            IF ~placeholder.threw
            THEN [source |-> "placeholder", value |-> Substring(placeholder.value, 64)]
            ELSE [source |-> "clock",
                  value |-> S_DEFAULT_PUBLIC_KEY \o Substring(DateNow(now), 32)]
    IN  IF zatcaCert.present /\ Truthy(zatcaCert.public_key)
        THEN [source |-> "zatca.certificate", value |-> Substring(zatcaCert.public_key, 88)]
        ELSE IF posConfig.present /\ Truthy(posConfig.public_key)
        THEN [source |-> "pos.config", value |-> Substring(posConfig.public_key, 88)]
        ELSE IF posSession.present /\ Truthy(posSession.public_key)
        THEN [source |-> "pos.session", value |-> Substring(posSession.public_key, 88)]
        ELSE derived(EncodeBase64(S_ZATCA_PUBLIC_KEY \o ToStr(company.vat)))

\* Faulty variant (C21): with no source, the value is made from the clock
getCertificateSignatureSync_clockFirst(now) ==
    LET zatcaCert == models.zatcaCertificate
        posConfig == config.zatca_certificate
        posSession == models.posSession
        dedicated == FirstTruthy(<<zatcaCert.certificate_signature, zatcaCert.serial_number>>)
        pick(cert) == FirstTruthy(<<cert.certificate_signature, cert.serial_number,
                                    cert.certificate_id>>)
    IN  IF zatcaCert.present /\ Truthy(dedicated)
        THEN [source |-> "zatca.certificate", value |-> Substring(dedicated, 88)]
        ELSE IF posConfig.present /\ Truthy(pick(posConfig))
        THEN [source |-> "pos.config", value |-> Substring(pick(posConfig), 88)]
        ELSE IF posSession.present /\ Truthy(pick(posSession))
        THEN [source |-> "pos.session", value |-> Substring(pick(posSession), 88)]
        ELSE [source |-> "placeholder",
              value |-> Substring(Btoa(S_ZATCA_CERT \o DateNow(now)), 64)]

\* [value, source]: the dedicated record is asked for certificate_signature
\* and serial_number only; the other sources for certificate_id as well
getCertificateSignatureSync(now) ==
    LET zatcaCert == models.zatcaCertificate
        posConfig == config.zatca_certificate
        posSession == models.posSession
        dedicated == FirstTruthy(<<zatcaCert.certificate_signature, zatcaCert.serial_number>>)
        pick(cert) == FirstTruthy(<<cert.certificate_signature, cert.serial_number,
                                    cert.certificate_id>>)
        derived(placeholder) ==
            IF ~placeholder.threw
            THEN [source |-> "placeholder", value |-> Substring(placeholder.value, 64)]
            ELSE [source |-> "clock",
                  value |-> S_DEFAULT_CERT_SIG \o Substring(DateNow(now), 32)]
    IN  IF zatcaCert.present /\ Truthy(dedicated)
        THEN [source |-> "zatca.certificate", value |-> Substring(dedicated, 88)]
        ELSE IF posConfig.present /\ Truthy(pick(posConfig))
        THEN [source |-> "pos.config", value |-> Substring(pick(posConfig), 88)]
        ELSE IF posSession.present /\ Truthy(pick(posSession))
        THEN [source |-> "pos.session", value |-> Substring(pick(posSession), 88)]
        ELSE derived(EncodeBase64(S_ZATCA_CERT \o ToStr(company.vat)))

(***************************************************************************)
(* QR payloads                                                             *)
(***************************************************************************)
\* computeSAQRCode of l10n_sa_pos (imported, not part of this repository):
\* the five standard fields, encoded as the add-on encodes its nine
computeSAQRCode(name, vat, date_isostring, amount_total, amount_tax) ==
    BinaryToBase64(
        _compute_qr_code_field(1, name)
            \o _compute_qr_code_field(2, vat)
            \o _compute_qr_code_field(3, KsaTimestamp(date_isostring))
            \o _compute_qr_code_field(4, NumToStr(amount_total))
            \o _compute_qr_code_field(5, NumToStr(amount_tax)))

\* add-on build.  [threw, value, path]: the nine fields, or, when the try
\* block throws, the five of computeSAQRCode.  The fingerprint of tag 6 is
\* taken at `now`, the other three values at `later`.
generateEnhancedQRDataSync(name, vat, date_isostring, amount_total, amount_tax, now, later) ==
    LET caught(standard) ==
            [threw |-> standard.threw, value |-> standard.value, path |-> "rescue"]
        rendered(text) ==
            IF text.threw
            THEN caught(computeSAQRCode(name, vat, date_isostring, amount_total, amount_tax))
            ELSE [threw |-> FALSE, value |-> text.value, path |-> "enhanced"]
        encoded(invoice_hash, digital_signature) ==
            IF invoice_hash.threw \/ digital_signature.threw
            THEN caught(computeSAQRCode(name, vat, date_isostring, amount_total, amount_tax))
            ELSE rendered(BinaryToBase64(
                    _compute_qr_code_field(1, name)
                        \o _compute_qr_code_field(2, vat)
                        \o _compute_qr_code_field(3, KsaTimestamp(date_isostring))
                        \o _compute_qr_code_field(4, NumToStr(amount_total))
                        \o _compute_qr_code_field(5, NumToStr(amount_tax))
                        \o _compute_qr_code_field(6, invoice_hash.value)
                        \o _compute_qr_code_field(7, digital_signature.value)
                        \o _compute_qr_code_field(8, getPublicKeySync(later).value)
                        \o _compute_qr_code_field(9, getCertificateSignatureSync(later).value)))
    IN  encoded(calculateInvoiceHashSync(now), generateDigitalSignatureSync(later))

\* the add-on overrides the method of l10n_sa_pos; the root copy leaves it
\* as it is, the five-field code
compute_sa_qr_code(name, vat, date_isostring, amount_total, amount_tax, now, later) ==
    LET legacy(standard) ==
            [threw |-> standard.threw, value |-> standard.value, path |-> "legacy"]
    IN  IF build = "addon" /\ shouldUsedirectMode
        THEN generateEnhancedQRDataSync(name, vat, date_isostring, amount_total, amount_tax,
                                        now, later)
        ELSE legacy(computeSAQRCode(name, vat, date_isostring, amount_total, amount_tax))

\* root build.  [isNull, values]: the nine values by tag, or null when the
\* try block throws (company data or uuid missing, a stage that throws)
generateQRDataSync(now, later) ==
    LET timestamp == IF Truthy(order.date_order) THEN order.date_order ELSE IsoNow(now)
        collected(hash, signature) ==
            IF hash.threw \/ signature.threw THEN [isNull |-> TRUE, values |-> <<>>]
            ELSE [isNull |-> FALSE,
                  values |-> << company.name, company.vat, timestamp,
                                ToFixed2(get_total_with_tax), ToFixed2(get_total_tax),
                                hash.value, signature.value,
                                getPublicKeySync(later).value,
                                getCertificateSignatureSync(later).value >>]
    IN  IF ~Truthy(company.name) \/ ~Truthy(company.vat) \/ ~Truthy(order.uuid)
        THEN [isNull |-> TRUE, values |-> <<>>]
        ELSE collected(calculateInvoiceHashSync(now), generateDigitalSignatureSync(later))

\* root build: tags 1..9 by position, a missing or empty value as '';
\* any error gives ''
_convertQRDataToBase64String(qr_values) ==
    LET field(i) == IF i <= Len(qr_values) /\ Truthy(qr_values[i]) THEN qr_values[i] ELSE <<>>
        rendered(text) == IF text.threw THEN <<>> ELSE text.value
    IN  rendered(BinaryToBase64(
            Concat([i \in 1..9 |-> _compute_qr_code_field(i, field(i))] \o <<>>)))

\* root build.  [kind, payload]: "qr" is the SVG ZXing draws of the
\* payload, "placeholder" the fixed SVG of the catch branch, "null" no
\* image.  The ZXing writer throws on empty contents.
generateZatcaQRSync(now, later) ==
    LET caught(qr_values) ==
            IF qr_values.isNull THEN [kind |-> "null", payload |-> <<>>]
            ELSE [kind |-> "placeholder", payload |-> <<>>]
        written(qr_base64_string) ==
            IF qr_base64_string = <<>> THEN caught(generateQRDataSync(later, later))
            ELSE [kind |-> "qr", payload |-> qr_base64_string]
        tried(qr_values) ==
            IF qr_values.isNull THEN caught(generateQRDataSync(later, later))
            ELSE written(_convertQRDataToBase64String(qr_values.values))
    IN  IF ~isSACompany \/ ~_validateZatcaRequirements
        THEN [kind |-> "null", payload |-> <<>>]
        ELSE tried(generateQRDataSync(now, later))

(***************************************************************************)
(* Sample values.  Strings are sequences of UTF-16 code units.             *)
(***************************************************************************)
NameAcme == <<65, 99, 109, 101, 32, 82, 101, 116, 97, 105, 108>>  \* "Acme Retail"
NameArabic == <<1605, 1578, 1580, 1585>>  \* "\u0645\u062a\u062c\u0631"
VatNumber == <<51, 48, 48, 48, 48, 48, 48, 48, 48, 48, 48, 48, 48, 48, 51>>  \* "300000000000003"
Uuid36 == <<48, 102, 56, 102, 97, 100, 53, 98, 45, 100, 57, 99, 98, 45, 52, 54, 57, 102, 45, 97, 49, 54, 53, 45, 55, 48, 56, 54, 55, 55, 50, 56, 57, 53, 48, 101>>  \* "0f8fad5b-d9cb-469f-a165-70867728950e"
OrderName == <<79, 114, 100, 101, 114, 32, 48, 48, 48, 48, 49, 45, 48, 48, 49, 45, 48, 48, 48, 49>>  \* "Order 00001-001-0001"
DateEvening == <<50, 48, 50, 52, 45, 48, 49, 45, 49, 53, 32, 50, 49, 58, 51, 48, 58, 48, 48>>  \* "2024-01-15 21:30:00"
PartnerAli == <<65, 108, 105>>  \* "Ali"
PartnerArabic == <<1593, 1604, 1610>>  \* "\u0639\u0644\u064a"
ProductTea == <<84, 101, 97>>  \* "Tea"
MethodCash == <<67, 97, 115, 104>>  \* "Cash"
KeyDedicated == <<77, 70, 89, 119, 69, 65, 89, 72, 75, 111, 90, 73, 122, 106, 48, 67, 65, 81, 89, 70, 75, 52, 69, 69, 65, 65, 111, 68, 81, 103, 65, 69, 45, 100, 101, 100, 105, 99, 97, 116, 101, 100>>  \* "MFYwEAYHKoZIzj0CAQYFK4EEAAoDQgAE-dedicated"
KeyConfig == <<77, 70, 89, 119, 69, 65, 89, 72, 75, 111, 90, 73, 122, 106, 48, 67, 65, 81, 89, 70, 75, 52, 69, 69, 65, 65, 111, 68, 81, 103, 65, 69, 45, 99, 111, 110, 102, 105, 103>>  \* "MFYwEAYHKoZIzj0CAQYFK4EEAAoDQgAE-config"
KeySession == <<77, 70, 89, 119, 69, 65, 89, 72, 75, 111, 90, 73, 122, 106, 48, 67, 65, 81, 89, 70, 75, 52, 69, 69, 65, 65, 111, 68, 81, 103, 65, 69, 45, 115, 101, 115, 115, 105, 111, 110>>  \* "MFYwEAYHKoZIzj0CAQYFK4EEAAoDQgAE-session"
SigDedicated == <<83, 73, 71, 45, 100, 101, 100, 105, 99, 97, 116, 101, 100>>  \* "SIG-dedicated"
SigConfig == <<83, 73, 71, 45, 99, 111, 110, 102, 105, 103>>  \* "SIG-config"
SigSession == <<83, 73, 71, 45, 115, 101, 115, 115, 105, 111, 110>>  \* "SIG-session"
SerialDedicated == <<83, 78, 45, 49, 48, 48, 49>>  \* "SN-1001"
SerialConfig == <<83, 78, 45, 50, 48, 48, 50>>  \* "SN-2002"
CertIdDedicated == <<49, 48, 49>>  \* "101"
CertIdConfig == <<50, 48, 50>>  \* "202"
CertIdSession == <<51, 48, 51>>  \* "303"

\* a company name of 128 Arabic letters: 256 bytes of UTF-8
NameLong == [i \in 1..128 |-> 1605] \o <<>>

\* a tax number written in Arabic-Indic digits: outside Latin-1
VatArabic == [i \in 1..15 |-> 1632 + (i % 10)] \o <<>>

\* a tax number of 40 digits: its placeholders are longer than 64 characters
VatLong == VatNumber \o VatNumber \o <<48, 49, 50, 51, 52, 53, 54, 55, 56, 57>>

(***************************************************************************)
(* Handler calls.  Each writes what it returned to ret:                    *)
(*   op     the handler                                                    *)
(*   threw  it left by an exception                                        *)
(*   text   the string it returned (payload, fingerprint, signature, key)  *)
(*   truth  the boolean it returned, or the zatca_direct flag it set       *)
(*   path   the branch that produced the value                             *)
(*   at     the clock when it returned                                     *)
(* and, for comparing a call with the one before it,                       *)
(*   repeat the call before was of the same handler                        *)
(*   before, since   that call's text and clock (when repeat)              *)
(* and, for the calls that run beside the store's configuration load,      *)
(*   during the stage of loadZatcaConfiguration when the handler ran       *)
(***************************************************************************)
MaxTick == 1

Ret(op, threw, text, truth, path, at) ==
    [op |-> op, threw |-> threw, text |-> text, truth |-> truth, path |-> path, at |-> at,
     repeat |-> ret.op = op,
     before |-> IF ret.op = op THEN ret.text ELSE <<>>,
     since |-> IF ret.op = op THEN ret.at ELSE 0,
     during |-> store.load]

NoReturn ==
    [op |-> "none", threw |-> FALSE, text |-> <<>>, truth |-> FALSE, path |-> "", at |-> 0,
     repeat |-> FALSE, before |-> <<>>, since |-> 0, during |-> "idle"]

\* time passes
Tick ==
    /\ clock < MaxTick
    /\ clock' = clock + 1
    /\ UNCHANGED <<build, window, company, config, order, models, ret, pureVars, uiVars>>

Call_shouldUsedirectMode ==
    /\ ret' = Ret("shouldUsedirectMode", FALSE, <<>>, shouldUsedirectMode, "", clock)
    /\ UNCHANGED <<build, window, company, config, order, models, clock, pureVars, uiVars>>

\* add-on build: false in direct mode, true for any other SA order, else
\* the inherited answer; the root copy inherits the method
Call_is_to_invoice ==
    /\ ret' = Ret("is_to_invoice", FALSE, <<>>,
                  IF build = "addon" /\ isSACompany /\ shouldUsedirectMode THEN FALSE
                  ELSE IF build = "addon" /\ isSACompany THEN TRUE
                  ELSE order.to_invoice,
                  "", clock)
    /\ UNCHANGED <<build, window, company, config, order, models, clock, pureVars, uiVars>>

\* truth is result.zatca_direct: the add-on build asks the Mode Selector,
\* the root copy reads the configuration flag alone
Call_export_for_printing ==
    /\ ret' = Ret("export_for_printing", FALSE, <<>>,
                  IF build = "addon" THEN shouldUsedirectMode
                  ELSE config.l10n_sa_edi_pos_direct_mode_enabled,
                  "", clock)
    /\ UNCHANGED <<build, window, company, config, order, models, clock, pureVars, uiVars>>

\* the store's getReceiptHeaderData(order).  Root build: in direct mode the
\* receipt's QR is replaced by generateZatcaQRSync's, when that gives one.
\* Add-on build (src/unnamed/part_000): only the flag is set.
Call_getReceiptHeaderData ==
    /\ \E later \in clock..MaxTick :
        /\ clock' = later
        /\ LET replaced(enhancedQR) ==
                    Ret("getReceiptHeaderData", FALSE, enhancedQR.payload,
                        enhancedQR.kind # "null", enhancedQR.kind, later)
           IN  ret' = IF build = "root" /\ shouldUsedirectMode
                      THEN replaced(generateZatcaQRSync(clock, later))
                      ELSE Ret("getReceiptHeaderData", FALSE, <<>>,
                               build = "addon" /\ isSACompany /\ shouldUsedirectMode,
                               "standard", later)
    /\ UNCHANGED <<build, window, company, config, order, models, pureVars, uiVars>>

\* the receipt asks the order for its QR text, with the company's name and
\* tax number, the order's date and its totals
Call_compute_sa_qr_code ==
    /\ \E later \in clock..MaxTick :
        /\ clock' = later
        /\ LET returned(r) ==
                    Ret("compute_sa_qr_code", r.threw, r.value, shouldUsedirectMode,
                        r.path, later)
           IN  ret' = returned(compute_sa_qr_code(company.name, company.vat,
                                                  order.date_order, get_total_with_tax,
                                                  get_total_tax, clock, later))
    /\ UNCHANGED <<build, window, company, config, order, models, pureVars, uiVars>>

Call_calculateInvoiceHashSync ==
    /\ LET returned(r) ==
                Ret("calculateInvoiceHashSync", r.threw, r.value, FALSE,
                    IF r.fallback THEN "fallback" ELSE "primary", clock)
       IN  ret' = returned(calculateInvoiceHashSync(clock))
    /\ UNCHANGED <<build, window, company, config, order, models, clock, pureVars, uiVars>>

\* truth records that the fingerprint that was signed came from its fallback
Call_generateDigitalSignatureSync ==
    /\ LET returned(r) ==
                Ret("generateDigitalSignatureSync", r.threw, r.value, r.hashFallback,
                    IF r.fallback THEN "fallback" ELSE "primary", clock)
       IN  ret' = returned(generateDigitalSignatureSync(clock))
    /\ UNCHANGED <<build, window, company, config, order, models, clock, pureVars, uiVars>>

\* Faulty variant (C24): the key that was resolved is kept on the configuration
Call_getPublicKeySync_caching ==
    /\ LET returned(r) == Ret("getPublicKeySync", FALSE, r.value, FALSE, r.source, clock)
       IN  /\ ret' = returned(getPublicKeySync(clock))
           /\ config' = [config EXCEPT !.zatca_certificate =
                            [NoCertificate EXCEPT !.present = TRUE,
                                !.public_key = getPublicKeySync(clock).value]]
    /\ UNCHANGED <<build, window, company, order, models, clock, pureVars, uiVars>>

Call_getPublicKeySync ==
    /\ LET returned(r) == Ret("getPublicKeySync", FALSE, r.value, FALSE, r.source, clock)
       IN  ret' = returned(getPublicKeySync(clock))
    /\ UNCHANGED <<build, window, company, config, order, models, clock, pureVars, uiVars>>

Call_getCertificateSignatureSync ==
    /\ LET returned(r) ==
                Ret("getCertificateSignatureSync", FALSE, r.value, FALSE, r.source, clock)
       IN  ret' = returned(getCertificateSignatureSync(clock))
    /\ UNCHANGED <<build, window, company, config, order, models, clock, pureVars, uiVars>>

\* the entry points that ask the Mode Selector
NextMode ==
    \/ Call_shouldUsedirectMode
    \/ Call_is_to_invoice
    \/ Call_export_for_printing
    \/ Call_getReceiptHeaderData
    \/ Call_compute_sa_qr_code

\* the stages of the pipeline and the payload, as time passes
NextPipeline ==
    \/ Tick
    \/ Call_calculateInvoiceHashSync
    \/ Call_generateDigitalSignatureSync
    \/ Call_compute_sa_qr_code

\* certificate resolution, as time passes
NextCerts ==
    \/ Tick
    \/ Call_getPublicKeySync
    \/ Call_getCertificateSignatureSync

(***************************************************************************)
(* TicketScreen and PosStore before anything has run                       *)
(***************************************************************************)
\* no refund is under way: the destination order carries no reason
\*   stage    "idle", "popup" (the handler awaits the dialog), "settled"
\*   state    the popup's state.l10n_sa_zatca_refund_reason
\*   reason   destinationOrder.l10n_sa_zatca_refund_reason ("" when unset)
\*   asked    the handler took the SA / direct-mode branch
\*   payload  the dialog resolved with a payload
\*   parent   super.addAdditionalRefundInfo ran
\*   settled  the handler's promise: "pending", "resolved", "rejected"
\*   notified the warning notification was added
\*   raised   a popup handler left by an uncaught TypeError
\*   was      the destination's reason when the handler was called
\*   refunds  refunds started so far
NoRefund ==
    [stage |-> "idle", state |-> "", reason |-> "", asked |-> FALSE, payload |-> FALSE,
     parent |-> FALSE, settled |-> "pending", notified |-> FALSE, raised |-> FALSE,
     was |-> "", refunds |-> 0]

\* the store after construction: neither field has been assigned
\*   zatca_config       "undefined", "null" or "loaded"
\*   zatca_certificate  the certificate data, NoCertificate when null/unset
\*   load               loadZatcaConfiguration: "idle", "pending", "settled", "rejected"
\*   rpc                how the last call of the RPC ended
\*   start              afterProcessServerData: "idle", "awaiting", "returned", "threw"
StoreUnloaded ==
    [zatca_config |-> "undefined", zatca_certificate |-> NoCertificate,
     load |-> "idle", rpc |-> "none", start |-> "idle"]


(***************************************************************************)
(* TicketScreen.addAdditionalRefundInfo and the ZatcaRefundReasonPopup.    *)
(* The handler awaits the dialog, so its run is two steps: up to the       *)
(* await, and from the dialog's answer to the return.                      *)
(***************************************************************************)
MaxRefunds == 2

\* the values of the popup's zatcaRefundReasons
zatcaRefundReasons ==
    {"DESC_ERROR", "QTY_ERROR", "PRICE_ERROR", "PRODUCT_DEFECT", "CUSTOMER_REQUEST",
     "OTHER_REASON"}

\* the values the popup's select offers: one option per refund reason
ReasonOptions == zatcaRefundReasons

\* this.pos.company.country_id?.code === "SA"
isSaudiCompany == company.country = "SA"

\* Faulty variant (C13): the popup starts from the order's reason as it is
ZatcaRefundReasonPopup_setup_asIs(reason) == IF reason # "" THEN reason ELSE "UNSET"

\* the popup's first state: the order's reason, or "DESC_ERROR"
ZatcaRefundReasonPopup_setup(reason) == IF reason # "" THEN reason ELSE "DESC_ERROR"

\* confirm(): with no reason in the state it reads this.notification, which
\* the component never set, and leaves by a TypeError with the dialog open;
\* otherwise it hands the payload over and closes
ZatcaRefundReasonPopup_confirm(state) ==
    IF state = ""
    THEN [raised |-> TRUE, closed |-> FALSE, payload |-> FALSE, reason |-> ""]
    ELSE [raised |-> FALSE, closed |-> TRUE, payload |-> TRUE, reason |-> state]

\* cancel(): closes, the awaited value is undefined
ZatcaRefundReasonPopup_cancel ==
    [raised |-> FALSE, closed |-> TRUE, payload |-> FALSE, reason |-> ""]

\* the handler from the dialog's answer on: a payload is written to the
\* destination order and the parent runs; without one, and when the await
\* throws, a warning is notified and the handler returns
addAdditionalRefundInfo(answer, failed) ==
    IF ~failed /\ answer.payload
    THEN [ticket EXCEPT !.stage = "settled", !.payload = TRUE, !.reason = answer.reason,
                        !.parent = TRUE, !.settled = "resolved"]
    ELSE [ticket EXCEPT !.stage = "settled", !.payload = FALSE, !.notified = TRUE,
                        !.settled = "resolved"]

\* the handler is called for a destination order, a new one or the one of
\* the refund before; outside SA or direct mode the parent runs at once
Call_addAdditionalRefundInfo ==
    /\ ticket.stage \in {"idle", "settled"}
    /\ ticket.refunds < MaxRefunds
    /\ \E fresh \in BOOLEAN :
        LET reason == IF fresh THEN "" ELSE ticket.reason
            called == [NoRefund EXCEPT !.reason = reason, !.was = reason,
                                       !.refunds = ticket.refunds + 1]
        IN  ticket' =
                IF isSaudiCompany /\ config.l10n_sa_edi_pos_direct_mode_enabled
                THEN [called EXCEPT !.stage = "popup", !.asked = TRUE,
                                    !.state = ZatcaRefundReasonPopup_setup(reason)]
                ELSE [called EXCEPT !.stage = "settled", !.parent = TRUE,
                                    !.settled = "resolved"]
    /\ UNCHANGED <<posVars, pureVars, store>>

Popup_onReasonChange ==
    /\ ticket.stage = "popup"
    /\ \E value \in ReasonOptions :
        /\ value # ticket.state
        /\ ticket' = [ticket EXCEPT !.state = value]
    /\ UNCHANGED <<posVars, pureVars, store>>

Popup_confirm ==
    /\ ticket.stage = "popup"
    /\ LET answer == ZatcaRefundReasonPopup_confirm(ticket.state)
       IN  ticket' = IF answer.closed THEN addAdditionalRefundInfo(answer, FALSE)
                     ELSE [ticket EXCEPT !.raised = answer.raised]
    /\ UNCHANGED <<posVars, pureVars, store>>

Popup_cancel ==
    /\ ticket.stage = "popup"
    /\ ticket' = addAdditionalRefundInfo(ZatcaRefundReasonPopup_cancel, FALSE)
    /\ UNCHANGED <<posVars, pureVars, store>>

\* the awaited dialog rejects
Dialog_fails ==
    /\ ticket.stage = "popup"
    /\ ticket' = addAdditionalRefundInfo(ZatcaRefundReasonPopup_cancel, TRUE)
    /\ UNCHANGED <<posVars, pureVars, store>>

NextRefund ==
    \/ Call_addAdditionalRefundInfo
    \/ Popup_onReasonChange
    \/ Popup_confirm
    \/ Popup_cancel
    \/ Dialog_fails


(***************************************************************************)
(* Initial states.  The order and its surroundings are as the server data  *)
(* loaded them; no handler of the add-on writes to them.                   *)
(***************************************************************************)
NoPartner == [present |-> FALSE, company_type |-> "", name |-> UNDEFINED, id |-> 0]
PersonPartner == [present |-> TRUE, company_type |-> "person", name |-> PartnerAli, id |-> 7]
CompanyPartner ==
    [present |-> TRUE, company_type |-> "company", name |-> PartnerArabic, id |-> 8]

\* two units of tea at 50.00 with 15% tax, paid in cash (amounts in 1/100)
TeaLine ==
    [id |-> 1, product |-> [present |-> TRUE, name |-> ProductTea],
     quantity |-> 200, unit_price |-> 5000,
     price_without_tax |-> 10000, tax |-> 1500, price_with_tax |-> 11500,
     tax_details |-> TRUE, tax_percentage |-> 1500]
CashPayment ==
    [payment_method_id |-> [present |-> TRUE, name |-> MethodCash], amount |-> 11500]

SampleOrder ==
    [partner_id |-> NoPartner, uuid |-> Uuid36, name |-> OrderName,
     pos_reference |-> OrderName, date_order |-> DateEvening, to_invoice |-> FALSE,
     lines |-> <<TeaLine>>, payment_ids |-> <<CashPayment>>]

Certificate(public_key, certificate_signature, serial_number, certificate_id) ==
    [present |-> TRUE, public_key |-> public_key,
     certificate_signature |-> certificate_signature,
     serial_number |-> serial_number, certificate_id |-> certificate_id]

Riyadh == [ZXing |-> TRUE, cryptoSubtle |-> TRUE, tzOffset |-> 3]

\* the handlers have not run, the pure-function variables are idle
InitIdle ==
    /\ clock = 0
    /\ ret = NoReturn
    /\ subject = [fields |-> <<>>]
    /\ outcome = [stage |-> "idle"]
    /\ ticket = NoRefund
    /\ store = StoreUnloaded

\* the sample order in the add-on build, for the specifications that apply
\* a pure function to its inputs and use nothing of the order
SampleSession ==
    /\ build = "addon"
    /\ window = Riyadh
    /\ company = [country |-> "SA", name |-> NameAcme, vat |-> VatNumber]
    /\ config = [l10n_sa_edi_pos_direct_mode_enabled |-> TRUE,
                 zatca_certificate |-> NoCertificate]
    /\ order = SampleOrder
    /\ models = [zatcaCertificate |-> NoCertificate, posSession |-> NoCertificate]
    /\ clock = 0
    /\ ret = NoReturn
    /\ ticket = NoRefund
    /\ store = StoreUnloaded

\* mode selection: both builds, every combination of capability, country,
\* flag, customer and company identity
Capabilities ==
    { Riyadh, [Riyadh EXCEPT !.ZXing = FALSE], [Riyadh EXCEPT !.cryptoSubtle = FALSE] }
Identities ==
    { [name |-> NameAcme, vat |-> VatNumber], [name |-> <<>>, vat |-> VatNumber],
      [name |-> NameAcme, vat |-> UNDEFINED] }

Init ==
    /\ build \in {"root", "addon"}
    /\ window \in Capabilities
    /\ \E country \in {"SA", "AE"}, identity \in Identities :
            company = [country |-> country, name |-> identity.name, vat |-> identity.vat]
    /\ \E enabled \in BOOLEAN :
            config = [l10n_sa_edi_pos_direct_mode_enabled |-> enabled,
                      zatca_certificate |-> NoCertificate]
    /\ \E partner \in {NoPartner, PersonPartner, CompanyPartner} :
            order = [SampleOrder EXCEPT !.partner_id = partner,
                                        !.to_invoice = partner.present]
    /\ models = [zatcaCertificate |-> NoCertificate, posSession |-> NoCertificate]
    /\ InitIdle

Spec == Init /\ [][NextMode]_vars

\* orders with and without a uuid, with a date, with a null date (the
\* epoch, and a signature timestamp from the clock) and with no date (the
\* content object cannot be built), for a cash customer, a person and a
\* business
Snapshots ==
    { SampleOrder,
      [SampleOrder EXCEPT !.partner_id = PersonPartner],
      [SampleOrder EXCEPT !.partner_id = CompanyPartner],
      [SampleOrder EXCEPT !.date_order = NULL],
      [SampleOrder EXCEPT !.date_order = UNDEFINED],
      [SampleOrder EXCEPT !.uuid = UNDEFINED, !.date_order = UNDEFINED] }

\* sellers with a Latin, an Arabic and a 256-byte name, and one whose tax
\* number is the empty string
PipelineIdentities ==
    { [name |-> NameAcme, vat |-> VatNumber], [name |-> NameArabic, vat |-> VatNumber],
      [name |-> NameLong, vat |-> VatNumber], [name |-> NameAcme, vat |-> <<>>] }

\* the pipeline with the flag set in an SA company: snapshots that take the
\* primary and the fallback branches of each stage
InitPipeline ==
    /\ build \in {"root", "addon"}
    /\ window = Riyadh
    /\ \E identity \in PipelineIdentities :
            company = [country |-> "SA", name |-> identity.name, vat |-> identity.vat]
    /\ config = [l10n_sa_edi_pos_direct_mode_enabled |-> TRUE,
                 zatca_certificate |-> NoCertificate]
    /\ \E snapshot \in Snapshots : order = snapshot
    /\ models = [zatcaCertificate |-> NoCertificate, posSession |-> NoCertificate]
    /\ InitIdle

SpecPipeline == InitPipeline /\ [][NextPipeline]_vars

\* certificate resolution: records with all, some or none of their fields
DedicatedRecords ==
    { NoCertificate,
      Certificate(KeyDedicated, SigDedicated, SerialDedicated, CertIdDedicated),
      Certificate(UNDEFINED, SigDedicated, UNDEFINED, UNDEFINED),
      Certificate(KeyDedicated, UNDEFINED, SerialDedicated, UNDEFINED),
      Certificate(KeyDedicated, UNDEFINED, UNDEFINED, CertIdDedicated) }
ConfigRecords ==
    { NoCertificate,
      Certificate(KeyConfig, SigConfig, SerialConfig, CertIdConfig),
      Certificate(KeyConfig, UNDEFINED, UNDEFINED, CertIdConfig) }
SessionRecords ==
    { NoCertificate, Certificate(KeySession, SigSession, UNDEFINED, CertIdSession) }

InitCerts ==
    /\ build \in {"root", "addon"}
    /\ window = Riyadh
    /\ \E vat \in {VatNumber, VatArabic, VatLong} :
            company = [country |-> "SA", name |-> NameAcme, vat |-> vat]
    /\ \E certificate \in ConfigRecords :
            config = [l10n_sa_edi_pos_direct_mode_enabled |-> TRUE,
                      zatca_certificate |-> certificate]
    /\ order = SampleOrder
    /\ \E dedicated \in DedicatedRecords, session \in SessionRecords :
            models = [zatcaCertificate |-> dedicated, posSession |-> session]
    /\ InitIdle

SpecCerts == InitCerts /\ [][NextCerts]_vars

(***************************************************************************)
(* PosStore: afterProcessServerData and loadZatcaConfiguration.  The load  *)
(* awaits the RPC, so it runs in two steps: up to the await, and from the  *)
(* RPC's answer to the return of afterProcessServerData.                   *)
(***************************************************************************)
\* what get_zatca_config_for_pos may answer: direct mode enabled with
\* certificate data (complete, without a public key, without a
\* certificate_id) or without any, direct mode disabled, nothing
Responses ==
    { [truthy |-> TRUE, direct_mode_enabled |-> TRUE,
       certificate_data |-> Certificate(KeyConfig, SigConfig, SerialConfig, CertIdConfig)],
      [truthy |-> TRUE, direct_mode_enabled |-> TRUE,
       certificate_data |-> Certificate(UNDEFINED, UNDEFINED, UNDEFINED, CertIdConfig)],
      [truthy |-> TRUE, direct_mode_enabled |-> TRUE,
       certificate_data |-> Certificate(KeyConfig, SigConfig, UNDEFINED, UNDEFINED)],
      [truthy |-> TRUE, direct_mode_enabled |-> TRUE, certificate_data |-> NoCertificate],
      [truthy |-> TRUE, direct_mode_enabled |-> FALSE,
       certificate_data |-> Certificate(KeyConfig, SigConfig, SerialConfig, CertIdConfig)],
      [truthy |-> FALSE, direct_mode_enabled |-> FALSE, certificate_data |-> NoCertificate] }

\* validateZatcaConfiguration reads the store and returns its findings,
\* which the load does not use: [valid, errors (their number)]
validateZatcaConfiguration(loaded) ==
    LET missingKey == loaded.zatca_certificate.present
                        /\ ~Truthy(loaded.zatca_certificate.public_key)
    IN  IF loaded.zatca_config # "loaded" THEN [valid |-> FALSE, errors |-> 1]
        ELSE [valid |-> ~missingKey, errors |-> IF missingKey THEN 1 ELSE 0]

\* Faulty variant (C15): the certificate is kept on the store only
loadZatcaConfiguration_storeOnly(zatcaConfig) ==
    LET certificate_data == zatcaConfig.certificate_data
        installed == zatcaConfig.truthy /\ zatcaConfig.direct_mode_enabled
                        /\ certificate_data.present /\ Truthy(certificate_data.certificate_id)
    IN  [store |-> [store EXCEPT !.zatca_config = "loaded",
                                 !.zatca_certificate = IF installed THEN certificate_data
                                                       ELSE NoCertificate],
         config |-> config]

\* the try block of loadZatcaConfiguration from the RPC's answer on:
\* [store, config] after it
loadZatcaConfiguration(zatcaConfig) ==
    LET certificate_data == zatcaConfig.certificate_data
    IN  IF zatcaConfig.truthy /\ zatcaConfig.direct_mode_enabled
        THEN IF certificate_data.present /\ Truthy(certificate_data.certificate_id)
             THEN [store |-> [store EXCEPT !.zatca_config = "loaded",
                                           !.zatca_certificate = certificate_data],
                   config |-> [config EXCEPT !.zatca_certificate = certificate_data]]
             ELSE [store |-> [store EXCEPT !.zatca_config = "loaded",
                                           !.zatca_certificate = NoCertificate],
                   config |-> [config EXCEPT !.zatca_certificate = NoCertificate]]
        ELSE [store |-> [store EXCEPT !.zatca_config = "null",
                                      !.zatca_certificate = NoCertificate],
              config |-> config]

\* the catch block of loadZatcaConfiguration: both fields are reset and the
\* error is thrown on
loadZatcaConfiguration_catch ==
    [store |-> [store EXCEPT !.zatca_config = "null", !.zatca_certificate = NoCertificate],
     threw |-> TRUE]

\* Faulty variant (C16): the load is awaited without a try block
afterProcessServerData_uncaught(loadThrew) == IF loadThrew THEN "threw" ELSE "returned"

\* afterProcessServerData after the awaited load: an error of the load is
\* caught and logged, the parent's result is returned either way
afterProcessServerData(loadThrew) == "returned"

\* the session starts: for an SA company in direct mode the load is begun
\* and its RPC sent; otherwise the parent's result is returned at once
Call_afterProcessServerData ==
    /\ store.start = "idle"
    /\ store' = IF company.country = "SA" /\ config.l10n_sa_edi_pos_direct_mode_enabled
                THEN [store EXCEPT !.start = "awaiting", !.load = "pending"]
                ELSE [store EXCEPT !.start = "returned"]
    /\ UNCHANGED <<posVars, pureVars, ticket>>

\* the RPC answers: the load finishes and afterProcessServerData returns
Rpc_resolves ==
    /\ store.load = "pending"
    /\ \E zatcaConfig \in Responses :
        LET after == loadZatcaConfiguration(zatcaConfig)
        IN  /\ store' = [after.store EXCEPT
                            !.load = "settled", !.start = afterProcessServerData(FALSE),
                            !.rpc = IF ~(zatcaConfig.truthy /\ zatcaConfig.direct_mode_enabled)
                                    THEN "disabled"
                                    ELSE IF after.store.zatca_certificate.present
                                    THEN "certificate" ELSE "no certificate"]
            /\ config' = after.config
    /\ UNCHANGED <<build, window, company, order, models, clock, ret, pureVars, ticket>>

\* the RPC fails
Rpc_rejects ==
    /\ store.load = "pending"
    /\ LET failed == loadZatcaConfiguration_catch
       IN  store' = [failed.store EXCEPT !.load = "rejected", !.rpc = "failed",
                                         !.start = afterProcessServerData(failed.threw)]
    /\ UNCHANGED <<posVars, pureVars, ticket>>

NextLoad ==
    \/ Call_afterProcessServerData
    \/ Rpc_resolves
    \/ Rpc_rejects
    \/ Call_compute_sa_qr_code


(***************************************************************************)
(* Refunds: inside and outside SA, flag on and off, every kind of customer, *)
(* original sale invoiced or not                                           *)
(***************************************************************************)
InitRefund ==
    /\ build = "addon"
    /\ window = Riyadh
    /\ \E country \in {"SA", "AE"} :
            company = [country |-> country, name |-> NameAcme, vat |-> VatNumber]
    /\ \E enabled \in BOOLEAN :
            config = [l10n_sa_edi_pos_direct_mode_enabled |-> enabled,
                      zatca_certificate |-> NoCertificate]
    /\ \E partner \in {NoPartner, PersonPartner, CompanyPartner}, invoiced \in BOOLEAN :
            order = [SampleOrder EXCEPT !.partner_id = partner, !.to_invoice = invoiced]
    /\ models = [zatcaCertificate |-> NoCertificate, posSession |-> NoCertificate]
    /\ InitIdle

SpecRefund == InitRefund /\ [][NextRefund]_vars

\* C12 (as claimed): under SA and direct mode a refund whose dialog gave no
\* payload (cancelled, or the await failed) leaves the destination order's
\* reason as it was, does not run the parent handling, and does not let the
\* refund go on: the handler's promise does not resolve.
C12_NoReasonNoRefund ==
    (ticket.stage = "settled" /\ ticket.asked /\ ~ticket.payload) =>
        /\ ticket.reason = ticket.was
        /\ ~ticket.parent
        /\ ticket.settled # "resolved"

\* C13: when the handler has run the parent handling under SA and direct
\* mode, the destination order's reason is one of the six codes, for every
\* customer, invoiced or not, after any selections in the popup.
C13_ReasonAttached ==
    (ticket.parent /\ ticket.asked) =>
        ticket.reason \in {"DESC_ERROR", "QTY_ERROR", "PRICE_ERROR", "PRODUCT_DEFECT",
                           "CUSTOMER_REQUEST", "OTHER_REASON"}

\* C13 witness: the refund of an invoiced sale to a business went on to the
\* parent with a reason selected in the popup, not the one it opened with
C13_Witness ==
    /\ ticket.parent
    /\ ticket.asked
    /\ order.to_invoice
    /\ order.partner_id.present
    /\ order.partner_id.company_type = "company"
    /\ ticket.reason = "OTHER_REASON"
    /\ ticket.was = "QTY_ERROR"


(***************************************************************************)
(* Session start beside receipts: the add-on build, an order in enhanced   *)
(* mode or outside it, with and without a dedicated certificate record and *)
(* a session certificate                                                   *)
(***************************************************************************)
InitLoad ==
    /\ build = "addon"
    /\ window = Riyadh
    /\ \E country \in {"SA", "AE"} :
            company = [country |-> country, name |-> NameAcme, vat |-> VatNumber]
    /\ \E enabled \in BOOLEAN :
            config = [l10n_sa_edi_pos_direct_mode_enabled |-> enabled,
                      zatca_certificate |-> NoCertificate]
    /\ order = SampleOrder
    /\ \E dedicated \in { NoCertificate,
                          Certificate(KeyDedicated, SigDedicated, UNDEFINED, UNDEFINED),
                          Certificate(KeyDedicated, UNDEFINED, UNDEFINED, UNDEFINED) },
          session \in SessionRecords :
            models = [zatcaCertificate |-> dedicated, posSession |-> session]
    /\ InitIdle

SpecLoad == InitLoad /\ [][NextLoad]_vars

\* the value bytes of the field with the given tag in a base64 payload
PayloadField(payload, tag) ==
    LET found(read) ==
            IF \E i \in 1..Len(read.fields) : read.fields[i].tag = tag
            THEN read.fields[CHOOSE i \in 1..Len(read.fields) : read.fields[i].tag = tag].bytes
            ELSE <<>>
    IN  found(ReadTLV(Atob(payload), 1, <<>>))

\* the placeholders of tags 8 and 9: the marker and the tax number, encoded,
\* cut to 64 characters
PlaceholderKeyBytes ==
    Substring(Btoa(TextEncoderEncode(S_ZATCA_PUBLIC_KEY \o company.vat)), 64)
PlaceholderCertBytes ==
    Substring(Btoa(TextEncoderEncode(S_ZATCA_CERT \o company.vat)), 64)

\* a step in which compute_sa_qr_code returned the nine-field payload
EnhancedPayloadReturned ==
    /\ ret' # ret
    /\ ret'.op = "compute_sa_qr_code"
    /\ ret'.path = "enhanced"

\* C15 (as claimed): a payload generated while the load's RPC is pending is
\* returned at once with the tax-number placeholders in tags 8 and 9; one
\* generated after a load that installed certificate data carries that
\* certificate's public key in tag 8 and its identifying value in tag 9.
C15_PlaceholderThenLoaded ==
    [][ EnhancedPayloadReturned =>
          LET loaded == store.zatca_certificate
          IN  /\ store.load = "pending" =>
                    /\ ~ret'.threw
                    /\ PayloadField(ret'.text, 8) = PlaceholderKeyBytes
                    /\ PayloadField(ret'.text, 9) = PlaceholderCertBytes
              /\ (store.load = "settled" /\ store.rpc = "certificate") =>
                    /\ Truthy(loaded.public_key)
                    /\ PayloadField(ret'.text, 8) = Substring(loaded.public_key, 88)
                    /\ PayloadField(ret'.text, 9) =
                         Substring(FirstTruthy(<<loaded.certificate_signature,
                                                 loaded.serial_number,
                                                 loaded.certificate_id>>), 88) ]_vars

\* C15 (amended): a payload generated while the load's RPC is pending is
\* returned at once, with the tax-number placeholders in tags 8 and 9 when
\* no dedicated record and no session certificate is present; one generated
\* after a load that installed certificate data carries, when no dedicated
\* record is present, that certificate's identifying value in tag 9 and, if
\* the certificate has a public key, that key in tag 8.
C15_PlaceholderThenLoadedUnlessOtherSource ==
    [][ EnhancedPayloadReturned =>
          LET loaded == store.zatca_certificate
              dedicated == models.zatcaCertificate
          IN  /\ store.load = "pending" => ~ret'.threw
              /\ (store.load = "pending" /\ ~dedicated.present /\ ~models.posSession.present) =>
                    /\ PayloadField(ret'.text, 8) = PlaceholderKeyBytes
                    /\ PayloadField(ret'.text, 9) = PlaceholderCertBytes
              /\ (store.load = "settled" /\ store.rpc = "certificate" /\ ~dedicated.present) =>
                    /\ Truthy(loaded.public_key) =>
                            PayloadField(ret'.text, 8) = Substring(loaded.public_key, 88)
                    /\ PayloadField(ret'.text, 9) =
                         Substring(FirstTruthy(<<loaded.certificate_signature,
                                                 loaded.serial_number,
                                                 loaded.certificate_id>>), 88) ]_vars

\* C15 witness: the nine-field payload was generated while the RPC was
\* pending, with no dedicated record and no session certificate
C15_Witness ==
    /\ ret.op = "compute_sa_qr_code"
    /\ ret.path = "enhanced"
    /\ ret.during = "pending"
    /\ ~models.zatcaCertificate.present
    /\ ~models.posSession.present
    /\ PayloadField(ret.text, 8) = PlaceholderKeyBytes

\* C16: when the configuration RPC has failed, zatca_config and
\* zatca_certificate are null, the load has thrown and afterProcessServerData
\* has returned all the same; no call of afterProcessServerData ends by an
\* error, whatever the RPC answered.
C16_LoadFailureNonFatal ==
    /\ store.start # "threw"
    /\ store.load \in {"settled", "rejected"} => store.start = "returned"
    /\ store.rpc = "failed" =>
            /\ store.load = "rejected"
            /\ store.zatca_config = "null"
            /\ store.zatca_certificate = NoCertificate

\* C16 witness: the RPC failed for an SA company in direct mode and the
\* session start returned
C16_Witness ==
    /\ store.rpc = "failed"
    /\ store.start = "returned"
    /\ company.country = "SA"
    /\ config.l10n_sa_edi_pos_direct_mode_enabled


(***************************************************************************)
(* Fingerprint and signature alone, in both builds: Latin and Arabic       *)
(* seller names, tax numbers (or none) and order names, orders without      *)
(* pos_reference, without a date, without a uuid, with a line that has no  *)
(* product                                                                 *)
(***************************************************************************)
OrderNameArabic == <<1591, 1604, 1576, 32, 48, 48, 49>>  \* "طلب 001"

SignSnapshots ==
    { SampleOrder,
      [SampleOrder EXCEPT !.partner_id = PersonPartner],
      [SampleOrder EXCEPT !.pos_reference = UNDEFINED, !.name = OrderNameArabic],
      [SampleOrder EXCEPT !.pos_reference = OrderNameArabic],
      [SampleOrder EXCEPT !.date_order = UNDEFINED],
      [SampleOrder EXCEPT !.lines = <<TeaLine, [TeaLine EXCEPT !.id = 2,
                                !.product = [present |-> FALSE, name |-> UNDEFINED]]>>],
      [SampleOrder EXCEPT !.uuid = UNDEFINED, !.date_order = UNDEFINED] }

InitSign ==
    /\ build \in {"root", "addon"}
    /\ window = Riyadh
    /\ \E name \in {NameAcme, NameArabic}, vat \in {VatNumber, VatArabic, <<>>} :
            company = [country |-> "SA", name |-> name, vat |-> vat]
    /\ config = [l10n_sa_edi_pos_direct_mode_enabled |-> TRUE,
                 zatca_certificate |-> NoCertificate]
    /\ \E snapshot \in SignSnapshots : order = snapshot
    /\ models = [zatcaCertificate |-> NoCertificate, posSession |-> NoCertificate]
    /\ InitIdle

NextSign ==
    \/ Tick
    \/ Call_calculateInvoiceHashSync
    \/ Call_generateDigitalSignatureSync

SpecSign == InitSign /\ [][NextSign]_vars

\* a string begins with the 'ZATCA:' marker
HasMarker(text) ==
    /\ Len(text) >= Len(S_ZATCA_MARK)
    /\ SubSeq(text, 1, Len(S_ZATCA_MARK)) = S_ZATCA_MARK

\* C18 (as claimed): a signature returned by generateDigitalSignatureSync
\* begins with 'ZATCA:' exactly when the primary signing path made it; one
\* made after a failure, in generateDigitalSignatureSync or inside
\* _generateDeterministicSignatureSync, is the fallback signature of tax
\* number, reference and total: no marker, at most 64 characters.
C18_MarkerOnlyOnPrimary ==
    (ret.op = "generateDigitalSignatureSync" /\ ~ret.threw) =>
        /\ ret.path = "primary" <=> HasMarker(ret.text)
        /\ ret.path = "fallback" =>
                /\ Len(ret.text) <= 64
                /\ ret.text = _generateFallbackSignature.value

\* C19 (as claimed): a fingerprint returned by calculateInvoiceHashSync, by
\* the primary path or by the fallback, has only characters of A-Z, a-z and
\* 0-9 and at most 64 of them; on the primary path exactly 64.
C19_FingerprintAlphanumeric ==
    (ret.op = "calculateInvoiceHashSync" /\ ~ret.threw) =>
        /\ \A i \in 1..Len(ret.text) : IsAlnum(ret.text[i])
        /\ Len(ret.text) <= 64
        /\ ret.path = "primary" => Len(ret.text) = 64

\* C20 (as claimed): when a step of the canonicalization throws, here the
\* building of the content object (an order without a date, a line without
\* its product), the fingerprint is still computed from a serialization of
\* the content object: calculateInvoiceHashSync returns, and not by its
\* catch branch.
C20_PlainSerializationOnFailure ==
    (ret.op = "calculateInvoiceHashSync" /\ _getStandardizedInvoiceContentForHash.threw) =>
        /\ ~ret.threw
        /\ ret.path = "primary"


\* a string with a character outside Latin-1
OutsideLatin1(text) == Truthy(text) /\ \E i \in 1..Len(text) : text[i] > 255

\* C23 (as claimed): for an order whose content object can be built and
\* whose seller name, customer name or a product name has characters
\* outside Latin-1, the fingerprint and the signature come from the primary
\* path: neither is a fallback value, and the fingerprint that was signed is
\* not the fallback fingerprint.
C23_UnicodeSafe ==
    LET named == \/ OutsideLatin1(company.name)
                 \/ order.partner_id.present /\ OutsideLatin1(order.partner_id.name)
                 \/ \E i \in 1..Len(order.lines) :
                        /\ order.lines[i].product.present
                        /\ OutsideLatin1(order.lines[i].product.name)
    IN  (/\ ret.op \in {"calculateInvoiceHashSync", "generateDigitalSignatureSync"}
         /\ named
         /\ ~_getStandardizedInvoiceContentForHash.threw) =>
            /\ ~ret.threw
            /\ ret.path = "primary"
            /\ ret.op = "generateDigitalSignatureSync" => ~ret.truth

(***************************************************************************)
(* Issue date and issue time of the content object: an order placed at     *)
(* any hour of a day, in a browser at any of four UTC offsets.  outcome    *)
(* keeps what each of the two formatters returned.                         *)
(***************************************************************************)
\* "2024-01-15 hh:30:00"
DateAtHour(h) ==
    <<50, 48, 50, 52, 45, 48, 49, 45, 49, 53, 32>> \o Pad2(h) \o <<58, 51, 48, 58, 48, 48>>

UtcOffsets == {-5, 0, 3, 9}

InitDates ==
    /\ build \in {"root", "addon"}
    /\ \E offset \in UtcOffsets : window = [Riyadh EXCEPT !.tzOffset = offset]
    /\ company = [country |-> "SA", name |-> NameAcme, vat |-> VatNumber]
    /\ config = [l10n_sa_edi_pos_direct_mode_enabled |-> TRUE,
                 zatca_certificate |-> NoCertificate]
    /\ \E h \in 0..23 : order = [SampleOrder EXCEPT !.date_order = DateAtHour(h)]
    /\ models = [zatcaCertificate |-> NoCertificate, posSession |-> NoCertificate]
    /\ InitIdle

Formatted(issue_date, issue_time) ==
    [stage |-> "issue", issue_date |-> issue_date, issue_time |-> issue_time]

Call__getZatcaFormattedDate ==
    /\ ~_getZatcaFormattedDate.threw
    /\ outcome' = Formatted(_getZatcaFormattedDate.value,
                            IF outcome.stage = "issue" THEN outcome.issue_time
                            ELSE UNDEFINED)
    /\ UNCHANGED <<posVars, subject, uiVars>>

Call__getZatcaFormattedTime ==
    /\ outcome' = Formatted(IF outcome.stage = "issue" THEN outcome.issue_date
                            ELSE UNDEFINED,
                            _getZatcaFormattedTime)
    /\ UNCHANGED <<posVars, subject, uiVars>>

NextDates == Call__getZatcaFormattedDate \/ Call__getZatcaFormattedTime

SpecDates == InitDates /\ [][NextDates]_vars

\* C22 (as claimed): issue_date and issue_time are the local date and the
\* local time of the one instant the order's date_order denotes, at every
\* hour and every UTC offset of the browser.
C22_IssueDateTimeSameReading ==
    LET local == ShiftHours(NewDate(order.date_order), window.tzOffset)
    IN  (outcome.stage = "issue" /\ outcome.issue_date # UNDEFINED
            /\ outcome.issue_time # UNDEFINED) =>
            /\ outcome.issue_date
                    = Pad4(local.y) \o <<45>> \o Pad2(local.mo) \o <<45>> \o Pad2(local.d)
            /\ outcome.issue_time
                    = Pad2(local.h) \o <<58>> \o Pad2(local.mi) \o <<58>> \o Pad2(local.s)

(***************************************************************************)
(* The pipeline's entry points beside the store's configuration load, in   *)
(* both builds: what a call of the pipeline leaves alone                   *)
(***************************************************************************)
InitFrame ==
    /\ build \in {"root", "addon"}
    /\ window = Riyadh
    /\ company = [country |-> "SA", name |-> NameAcme, vat |-> VatNumber]
    /\ config = [l10n_sa_edi_pos_direct_mode_enabled |-> TRUE,
                 zatca_certificate |-> NoCertificate]
    /\ \E snapshot \in {SampleOrder, [SampleOrder EXCEPT !.date_order = UNDEFINED]} :
            order = snapshot
    /\ models = [zatcaCertificate |-> NoCertificate, posSession |-> NoCertificate]
    /\ InitIdle

NextFrame ==
    \/ Call_afterProcessServerData
    \/ Rpc_resolves
    \/ Rpc_rejects
    \/ Call_compute_sa_qr_code
    \/ Call_getReceiptHeaderData
    \/ Call_calculateInvoiceHashSync
    \/ Call_generateDigitalSignatureSync
    \/ Call_getPublicKeySync
    \/ Call_getCertificateSignatureSync

SpecFrame == InitFrame /\ [][NextFrame]_vars

\* the handlers of the pipeline, by the name they leave in ret
CoreHandlers ==
    {"compute_sa_qr_code", "getReceiptHeaderData", "calculateInvoiceHashSync",
     "generateDigitalSignatureSync", "getPublicKeySync", "getCertificateSignatureSync"}

\* C24: a call of compute_sa_qr_code / generateEnhancedQRDataSync, of
\* generateQRDataSync (through the receipt header), calculateInvoiceHashSync,
\* generateDigitalSignatureSync, getPublicKeySync or
\* getCertificateSignatureSync leaves every field of the order, of the
\* configuration and of the store as it was, and the company and the
\* certificate records with them.
C24_PipelineWritesNothing ==
    [][(ret' # ret /\ ret'.op \in CoreHandlers) =>
            UNCHANGED <<order, config, store, company, models>>]_vars

\* the nine fields were built after a load had installed a certificate on
\* the store and the configuration, and both still carry it
C24_Witness ==
    /\ ret.op \in {"compute_sa_qr_code", "getReceiptHeaderData"}
    /\ ret.path \in {"enhanced", "qr"}
    /\ ret.during = "settled"
    /\ store.zatca_certificate.present
    /\ config.zatca_certificate = store.zatca_certificate

(***************************************************************************)
(* The configuration load, run again after it has finished (the store's    *)
(* loadZatcaConfiguration is a method anyone holding the store may call),  *)
(* beside the resolver that reads config.zatca_certificate                 *)
(***************************************************************************)
\* loadZatcaConfiguration is called on a store whose earlier load is over:
\* the RPC is sent again
Call_loadZatcaConfiguration ==
    /\ store.load \in {"settled", "rejected"}
    /\ store' = [store EXCEPT !.load = "pending"]
    /\ UNCHANGED <<posVars, pureVars, ticket>>

InitReload ==
    /\ build \in {"root", "addon"}
    /\ window = Riyadh
    /\ company = [country |-> "SA", name |-> NameAcme, vat |-> VatNumber]
    /\ config = [l10n_sa_edi_pos_direct_mode_enabled |-> TRUE,
                 zatca_certificate |-> NoCertificate]
    /\ order = SampleOrder
    /\ \E session \in SessionRecords :
            models = [zatcaCertificate |-> NoCertificate, posSession |-> session]
    /\ InitIdle

NextReload ==
    \/ Call_afterProcessServerData
    \/ Call_loadZatcaConfiguration
    \/ Rpc_resolves
    \/ Rpc_rejects
    \/ Call_getPublicKeySync

SpecReload == InitReload /\ [][NextReload]_vars

\* C26 (as claimed): whenever a load has finished, by any of its outcomes
\* and after any number of earlier loads, the store's zatca_certificate and
\* config.zatca_certificate are the same; so after a response with direct
\* mode disabled, or a failed RPC, the configuration carries no certificate
\* for the resolver to read.
C26_StoreAndConfigAgree ==
    store.load \in {"settled", "rejected"} =>
        /\ config.zatca_certificate = store.zatca_certificate
        /\ store.rpc \in {"disabled", "failed"} => ~config.zatca_certificate.present

(***************************************************************************)
(* The order's to_invoice field: the add-on build, an order that has been  *)
(* set up and is still editable, its customer changed by the cashier       *)
(***************************************************************************)
\* what setup leaves behind: an SA order outside direct mode is to be
\* invoiced; any other order keeps the value of its serialized data
setup == (isSACompany /\ ~shouldUsedirectMode) => order.to_invoice

InitInvoice ==
    /\ build = "addon"
    /\ window = Riyadh
    /\ \E country \in {"SA", "AE"} :
            company = [country |-> country, name |-> NameAcme, vat |-> VatNumber]
    /\ \E enabled \in BOOLEAN :
            config = [l10n_sa_edi_pos_direct_mode_enabled |-> enabled,
                      zatca_certificate |-> NoCertificate]
    /\ \E partner \in {NoPartner, PersonPartner, CompanyPartner}, to_invoice \in BOOLEAN :
            order = [SampleOrder EXCEPT !.partner_id = partner, !.to_invoice = to_invoice]
    /\ setup
    /\ models = [zatcaCertificate |-> NoCertificate, posSession |-> NoCertificate]
    /\ InitIdle

\* set_to_invoice(to_invoice): outside direct mode an SA order is set to
\* true whatever the argument; otherwise the inherited method stores the
\* argument.  truth is the field after the call.
Call_set_to_invoice ==
    /\ \E to_invoice \in BOOLEAN :
        LET stored == IF isSACompany /\ ~shouldUsedirectMode THEN TRUE ELSE to_invoice
        IN  /\ order' = [order EXCEPT !.to_invoice = stored]
            /\ ret' = Ret("set_to_invoice", FALSE, <<>>, stored, "", clock)
    /\ UNCHANGED <<build, window, company, config, models, clock, pureVars, uiVars>>

\* the cashier selects another customer, or none: partner_id is replaced,
\* nothing else of the order is
Set_partner ==
    /\ \E partner \in {NoPartner, PersonPartner, CompanyPartner} :
        /\ partner # order.partner_id
        /\ order' = [order EXCEPT !.partner_id = partner]
    /\ UNCHANGED <<build, window, company, config, models, clock, ret, pureVars, uiVars>>

NextInvoice ==
    \/ Call_set_to_invoice
    \/ Set_partner
    \/ Call_is_to_invoice
    \/ Call_shouldUsedirectMode

SpecInvoice == InitInvoice /\ [][NextInvoice]_vars

\* C27 (as claimed): for an SA order, after setup and any calls of
\* set_to_invoice and changes of customer, is_to_invoice() returns false
\* exactly when the order is in direct mode, and outside direct mode the
\* to_invoice field is true.
C27_InvoicedExactlyOutsideDirectMode ==
    /\ [](isSACompany => (~shouldUsedirectMode => order.to_invoice))
    /\ [][(isSACompany /\ ret' # ret /\ ret'.op = "is_to_invoice") =>
            (ret'.truth = FALSE <=> shouldUsedirectMode)]_vars

(***************************************************************************)
(* Fingerprint and signature of an order that is altered between two       *)
(* payloads: same seller, same customer, another transaction id, price,    *)
(* line or payment.  outcome keeps the pair of tags 6 and 7 with the       *)
(* snapshot it was made of, and the pair and snapshot before it.           *)
(***************************************************************************)
MethodCard == <<67, 97, 114, 100>>  \* "Card"

\* the sample order, and orders that differ from it in one respect
AlteredSnapshots ==
    { SampleOrder,
      [SampleOrder EXCEPT !.uuid = [Uuid36 EXCEPT ![36] = 102]],
      [SampleOrder EXCEPT
            !.lines = <<[TeaLine EXCEPT !.unit_price = 6000, !.price_without_tax = 12000,
                                        !.tax = 1800, !.price_with_tax = 13800]>>,
            !.payment_ids = <<[CashPayment EXCEPT !.amount = 13800]>>],
      [SampleOrder EXCEPT
            !.lines = <<TeaLine, [TeaLine EXCEPT !.id = 2]>>,
            !.payment_ids = <<[CashPayment EXCEPT !.amount = 23000]>>],
      [SampleOrder EXCEPT
            !.payment_ids = <<[CashPayment EXCEPT !.payment_method_id.name = MethodCard]>>] }

InitTamper ==
    /\ build \in {"root", "addon"}
    /\ window = Riyadh
    /\ company = [country |-> "SA", name |-> NameAcme, vat |-> VatNumber]
    /\ config = [l10n_sa_edi_pos_direct_mode_enabled |-> TRUE,
                 zatca_certificate |-> NoCertificate]
    /\ \E snapshot \in AlteredSnapshots, partner \in {NoPartner, PersonPartner} :
            order = [snapshot EXCEPT !.partner_id = partner]
    /\ models = [zatcaCertificate |-> NoCertificate, posSession |-> NoCertificate]
    /\ InitIdle

\* the values of tags 6 and 7 as the payload builders take them: one call
\* of calculateInvoiceHashSync, one of generateDigitalSignatureSync
Call_fingerprint_and_signature ==
    /\ LET taken(invoice_hash, digital_signature) ==
                [stage |-> "signed", snapshot |-> order,
                 tag6 |-> invoice_hash.value, tag7 |-> digital_signature.value,
                 fallback |-> invoice_hash.fallback \/ digital_signature.fallback,
                 again |-> outcome.stage = "signed",
                 before |-> IF outcome.stage = "signed"
                            THEN <<outcome.snapshot, outcome.tag6, outcome.tag7>>
                            ELSE <<>>]
       IN  outcome' = taken(calculateInvoiceHashSync(clock),
                            generateDigitalSignatureSync(clock))
    /\ UNCHANGED <<posVars, subject, uiVars>>

\* the order is replaced by one that differs in its transaction id, in a
\* price and the totals, in its lines or in its payment
Alter_order ==
    /\ \E snapshot \in AlteredSnapshots :
        /\ snapshot # [order EXCEPT !.partner_id = NoPartner]
        /\ order' = [snapshot EXCEPT !.partner_id = order.partner_id]
    /\ UNCHANGED <<build, window, company, config, models, clock, ret, pureVars, uiVars>>

NextTamper == Call_fingerprint_and_signature \/ Alter_order

SpecTamper == InitTamper /\ [][NextTamper]_vars

\* C29 (as claimed): two orders of the same seller and customer that differ
\* in the transaction id, in a total, in a line or in a payment have
\* different pairs of fingerprint (tag 6) and signature (tag 7).
C29_TamperEvident ==
    (outcome.stage = "signed" /\ outcome.again /\ outcome.before[1] # outcome.snapshot) =>
        <<outcome.tag6, outcome.tag7>> # <<outcome.before[2], outcome.before[3]>>

(***************************************************************************)
(* SpecCanon: _canonicalizeForZatca applied to bounded content objects     *)
(***************************************************************************)
MaxStrLen == 3

\* the characters of the string values: a, space, comma, closing brace,
\* closing bracket and the double quote
ValueUnits == {97, 32, 44, 125, 93, 34}

RECURSIVE StringsUpTo(_)
StringsUpTo(n) ==
    IF n = 0 THEN {<<>>}
    ELSE LET shorter == StringsUpTo(n - 1)
         IN  shorter \cup {Append(s, c) : s \in {t \in shorter : Len(t) = n - 1}, c \in ValueUnits}

\* the keys "a", "ab", "b", "c", "d"
KeyA == <<97>>
KeyAB == <<97, 98>>
KeyB == <<98>>
KeyC == <<99>>
KeyD == <<100>>

SmallLeaves == {JStr(<<97>>), JNum(1150), JNull}
InnerObjects == {JObj(<<KV(KeyD, x), KV(KeyC, y)>>) : x, y \in SmallLeaves}

\* flat objects over every string value, and nested ones (an object in an
\* object, an object in an array)
ContentObjects ==
    {JObj(<<KV(KeyB, JStr(s)), KV(KeyA, JNum(1150))>>) : s \in StringsUpTo(MaxStrLen)}
        \cup {JObj(<<KV(KeyB, i1), KV(KeyAB, JArr(<<i2, x>>)), KV(KeyA, x)>>) :
                i1 \in InnerObjects, i2 \in {JObj(<<KV(KeyD, JNull), KV(KeyC, JNull)>>)},
                x \in SmallLeaves}

IndexPermutations(n) == {p \in [1..n -> 1..n] : \A i, j \in 1..n : p[i] = p[j] => i = j}

\* every value with the keys and values of x, at every level, in any
\* insertion order; arrays keep their element order
RECURSIVE Reorderings(_)
Reorderings(x) ==
    IF x.t = "obj"
    THEN LET n == Len(x.v)
             kids == [i \in 1..n |-> Reorderings(x.v[i].val)]
             all == UNION {kids[i] : i \in 1..n}
             picks == {f \in [1..n -> all] : \A i \in 1..n : f[i] \in kids[i]}
         IN  {JObj([i \in 1..n |-> KV(x.v[p[i]].k, f[p[i]])]) :
                 p \in IndexPermutations(n), f \in picks}
    ELSE IF x.t = "arr"
    THEN LET n == Len(x.v)
             kids == [i \in 1..n |-> Reorderings(x.v[i])]
             all == UNION {kids[i] : i \in 1..n}
             picks == {f \in [1..n -> all] : \A i \in 1..n : f[i] \in kids[i]}
         IN  {JArr(f) : f \in picks}
    ELSE {x}

\* the insertion order of the keys of x, level by level
RECURSIVE KeyOrder(_)
KeyOrder(x) ==
    IF x.t = "obj"
    THEN Concat([i \in 1..Len(x.v) |-> <<x.v[i].k>> \o KeyOrder(x.v[i].val)])
    ELSE IF x.t = "arr" THEN Concat([i \in 1..Len(x.v) |-> KeyOrder(x.v[i])])
    ELSE <<>>

NoOutcome == [stage |-> "input", canonical |-> <<>>, canonicalPermuted |-> <<>>,
              reparsed |-> FALSE, recanonical |-> <<>>]

InitCanon ==
    /\ \E c \in ContentObjects : \E p \in Reorderings(c) :
            subject = [content |-> c, permuted |-> p]
    /\ outcome = NoOutcome
    /\ SampleSession

\* canonicalize the content object and its reordering
Canonicalize ==
    /\ outcome.stage = "input"
    /\ outcome' = [outcome EXCEPT
            !.stage = "canonical",
            !.canonical = _canonicalizeForZatca(subject.content),
            !.canonicalPermuted = _canonicalizeForZatca(subject.permuted)]
    /\ UNCHANGED <<subject, posVars, uiVars>>

\* parse the canonical form back and canonicalize the parsed structure
Recanonicalize ==
    /\ outcome.stage = "canonical"
    /\ LET parsed == JSONParse(outcome.canonical)
       IN  outcome' = [outcome EXCEPT
                !.stage = "recanonical",
                !.reparsed = parsed.ok,
                !.recanonical = IF parsed.ok THEN _canonicalizeForZatca(parsed.val)
                                ELSE <<>>]
    /\ UNCHANGED <<subject, posVars, uiVars>>

NextCanon == Canonicalize \/ Recanonicalize

SpecCanon == InitCanon /\ [][NextCanon]_vars

\* C4: a content object and any reordering of its keys, at every nesting
\* level, have the same canonical form.
C4_OrderIndependent ==
    outcome.stage \in {"canonical", "recanonical"} =>
        outcome.canonical = outcome.canonicalPermuted

\* C4 witness: a canonicalized pair whose key orders differ inside a nested
\* object as well as at the top level
C4_Witness ==
    /\ outcome.stage \in {"canonical", "recanonical"}
    /\ Len(subject.content.v) = 3
    /\ subject.content.v[1].k # subject.permuted.v[1].k
    /\ KeyOrder(subject.content.v[1].val) # <<>>
    /\ \E i \in 1..3 : /\ subject.permuted.v[i].k = subject.content.v[1].k
                       /\ KeyOrder(subject.permuted.v[i].val)
                            # KeyOrder(subject.content.v[1].val)

\* C5 (as claimed): canonicalizing the parsed canonical form gives the
\* canonical form again.
C5_Idempotent ==
    outcome.stage = "recanonical" =>
        outcome.reparsed /\ outcome.recanonical = outcome.canonical

(***************************************************************************)
(* SpecTLV: the encoder applied to bounded field lists                     *)
(***************************************************************************)
MaxFields == 3

Repeat(unit, n) == [i \in 1..n |-> unit] \o <<>>

\* field values: empty, one ASCII letter, one Arabic letter (two bytes),
\* two control characters that read as a tag and a length, MaxByte bytes of
\* ASCII, MaxByte bytes in fewer code units, and one byte more than MaxByte
FieldValues ==
    { <<>>, <<65>>, <<1593>>, <<2, 1>>,
      Repeat(65, MaxByte), Repeat(1593, MaxByte \div 2) \o <<65>>,
      Repeat(1593, (MaxByte + 1) \div 2) }

FieldLists == UNION {[1..n -> FieldValues] : n \in 1..MaxFields}

FitsLengthByte(fields) ==
    \A i \in 1..Len(fields) : Len(TextEncoderEncode(fields[i])) <= MaxByte

InitTLV ==
    /\ subject \in {[fields |-> fs] : fs \in FieldLists}
    /\ outcome = [stage |-> "fields", threw |-> FALSE, payload |-> <<>>,
                  read |-> [fields |-> <<>>, leftover |-> 0]]
    /\ SampleSession

\* the fields are encoded with the tags 1, 2, ... in order, concatenated and
\* rendered as base64
EncodeFields ==
    /\ outcome.stage = "fields"
    /\ LET buffer == Concat([i \in 1..Len(subject.fields) |->
                                _compute_qr_code_field(i, subject.fields[i])])
           text == BinaryToBase64(buffer)
       IN  outcome' = [outcome EXCEPT !.stage = "encoded", !.threw = text.threw,
                                      !.payload = text.value]
    /\ UNCHANGED <<subject, posVars, uiVars>>

\* a reader decodes the base64 text and walks the buffer
DecodePayload ==
    /\ outcome.stage = "encoded"
    /\ ~outcome.threw
    /\ outcome' = [outcome EXCEPT !.stage = "decoded",
                                  !.read = ReadTLV(Atob(outcome.payload), 1, <<>>)]
    /\ UNCHANGED <<subject, posVars, uiVars>>

NextTLV == EncodeFields \/ DecodePayload

SpecTLV == InitTLV /\ [][NextTLV]_vars

\* C7: when every value has at most 255 UTF-8 bytes, the encoder does not
\* fail and reading its buffer gives back the same tags, byte lengths and
\* bytes, in order, with nothing left over.
C7_TLVRoundTrip ==
    FitsLengthByte(subject.fields) =>
        /\ outcome.stage = "encoded" => ~outcome.threw
        /\ outcome.stage = "decoded" =>
            /\ outcome.read.leftover = 0
            /\ outcome.read.fields =
                 [i \in 1..Len(subject.fields) |->
                    [tag |-> i,
                     length |-> Len(TextEncoderEncode(subject.fields[i])),
                     bytes |-> TextEncoderEncode(subject.fields[i])]]

\* C7 witness: a decoded list that holds a 255-byte value, a multi-byte
\* character and a value whose bytes read as a tag and a length
C7_Witness ==
    /\ outcome.stage = "decoded"
    /\ Len(subject.fields) = 3
    /\ subject.fields[1] = <<2, 1>>
    /\ Len(TextEncoderEncode(subject.fields[2])) = MaxByte
    /\ subject.fields[3] = <<1593>>

(***************************************************************************)
(* Properties of the handlers                                              *)
(***************************************************************************)
Tags1to5 == <<1, 2, 3, 4, 5>>
Tags1to9 == <<1, 2, 3, 4, 5, 6, 7, 8, 9>>

\* C1: shouldUsedirectMode answers enhanced only for an SA company with the
\* direct-mode flag set and an order without a partner or with a partner of
\* company_type 'person'; when one of the three fails the answer is legacy.
C1_ModeSelector ==
    (ret.op = "shouldUsedirectMode" /\ ret.truth) =>
        /\ company.country = "SA"
        /\ config.l10n_sa_edi_pos_direct_mode_enabled
        /\ ~order.partner_id.present \/ order.partner_id.company_type = "person"

\* C1 witness: enhanced mode was selected for an order of a person
C1_Witness ==
    /\ ret.op = "shouldUsedirectMode"
    /\ ret.truth
    /\ order.partner_id.present

\* C2 (as claimed): without the ZXing writer or crypto.subtle every entry
\* point acts as in legacy mode, however the business conditions stand, and
\* the check does not throw: the selector answers legacy, compute_sa_qr_code
\* returns the five-field code, is_to_invoice gives the legacy answer of an
\* SA order, and neither receipt method sets zatca_direct (of
\* export_for_printing, the add-on build's, which asks the selector).
C2_CapabilityFailClosed ==
    (~window.ZXing \/ ~window.cryptoSubtle) =>
        /\ ret.op = "shouldUsedirectMode" => ~ret.truth /\ ~ret.threw
        /\ ret.op = "compute_sa_qr_code" => PayloadTags(ret.text) = Tags1to5
        /\ (ret.op = "is_to_invoice" /\ build = "addon" /\ company.country = "SA")
                => ret.truth
        /\ (ret.op = "export_for_printing" /\ build = "addon") => ~ret.truth
        /\ ret.op = "getReceiptHeaderData" => ~ret.truth

\* C3 (as claimed): with the company's name or tax number absent or empty
\* the selector answers legacy and compute_sa_qr_code returns no nine-field
\* payload.
C3_IdentityFailClosed ==
    (~Truthy(company.name) \/ ~Truthy(company.vat)) =>
        /\ ret.op = "shouldUsedirectMode" => ~ret.truth
        /\ ret.op = "compute_sa_qr_code" => PayloadTags(ret.text) # Tags1to9

\* C6: on the non-fallback path a repeated call of calculateInvoiceHashSync
\* returns the fingerprint of the call before it, and a repeated call of
\* generateDigitalSignatureSync the signature of the call before it,
\* whatever the clock showed at either call.
C6_Deterministic ==
    /\ (ret.op = "calculateInvoiceHashSync" /\ ret.repeat /\ ret.path = "primary")
            => ret.text = ret.before
    /\ (ret.op = "generateDigitalSignatureSync" /\ ret.repeat /\ ret.path = "primary"
            /\ ~ret.truth)
            => ret.text = ret.before

\* C6 witness: a signature was made twice on the primary path, at different
\* times, of an order whose signed record takes its timestamp from the clock
C6_Witness ==
    /\ ret.op = "generateDigitalSignatureSync"
    /\ ret.repeat
    /\ ret.since < ret.at
    /\ ret.path = "primary"
    /\ ~ret.truth
    /\ order.date_order = NULL

\* C8 (as claimed): in the add-on build compute_sa_qr_code returns a payload
\* of exactly the nine fields 1..9 when the selector answers enhanced, and
\* of exactly the five fields 1..5 when it answers legacy.
C8_FieldCount ==
    (ret.op = "compute_sa_qr_code" /\ build = "addon") =>
        /\ ~ret.threw
        /\ PayloadTags(ret.text) = IF ret.truth THEN Tags1to9 ELSE Tags1to5

\* C9 (as claimed): a repeated call of compute_sa_qr_code on the same order
\* returns the text of the call before it, whatever time passed between.
C9_SamePayload ==
    (ret.op = "compute_sa_qr_code" /\ ret.repeat) => ret.text = ret.before

\* C9 (amended): a repeated call of compute_sa_qr_code on the same order
\* returns the text of the call before it, whatever time passed between,
\* when the order's fingerprint is not made by the fallback branch.
C9_SamePayloadOffFallback ==
    (ret.op = "compute_sa_qr_code" /\ ret.repeat /\ ~calculateInvoiceHashSync(clock).fallback)
        => ret.text = ret.before

\* C9 witness: the nine-field payload was computed twice, at different
\* times, with a fingerprint of the primary branch
C9_Witness ==
    /\ ret.op = "compute_sa_qr_code"
    /\ ret.repeat
    /\ ret.since < ret.at
    /\ ret.path = "enhanced"
    /\ ~calculateInvoiceHashSync(clock).fallback

\* C10 (as claimed): with a dedicated certificate record and a certificate
\* on the configuration both present, the public key and the
\* certificate-identifying value both come from the dedicated record.
C10_DedicatedAlways ==
    (models.zatcaCertificate.present /\ config.zatca_certificate.present) =>
        (ret.op \in {"getPublicKeySync", "getCertificateSignatureSync"}
            => ret.path = "zatca.certificate")

\* C10 (amended): a dedicated record with a non-empty public_key gives the
\* public key, and one with a non-empty certificate_signature or
\* serial_number gives the certificate-identifying value (the first of the
\* two), each cut to 88 characters, whatever the configuration and the
\* session carry.
C10_DedicatedWhenFilled ==
    LET dedicated == models.zatcaCertificate
    IN  /\ (ret.op = "getPublicKeySync" /\ dedicated.present
                /\ Truthy(dedicated.public_key))
            => /\ ret.path = "zatca.certificate"
               /\ ret.text = Substring(dedicated.public_key, 88)
        /\ (ret.op = "getCertificateSignatureSync" /\ dedicated.present
                /\ Truthy(FirstTruthy(<<dedicated.certificate_signature,
                                        dedicated.serial_number>>)))
            => /\ ret.path = "zatca.certificate"
               /\ ret.text = Substring(FirstTruthy(<<dedicated.certificate_signature,
                                                     dedicated.serial_number>>), 88)

\* C10 witness: the public key was resolved from a dedicated record while
\* the configuration and the session both carry a key of their own
C10_Witness ==
    /\ ret.op = "getPublicKeySync"
    /\ ret.path = "zatca.certificate"
    /\ Truthy(config.zatca_certificate.public_key)
    /\ Truthy(models.posSession.public_key)

(***************************************************************************)
(* Properties of the certificate-identifying value                         *)
(***************************************************************************)
\* C11 (as claimed): the certificate-identifying value is the first present
\* of certificate_signature, serial_number and certificate_id of the first
\* source (dedicated record, configuration, session) that carries one of the
\* three, so a source with certificate_id alone is chosen and gives it.
C11_FieldOrderInChosenSource ==
    LET identifier(cert) == FirstTruthy(<<cert.certificate_signature, cert.serial_number,
                                          cert.certificate_id>>)
        carries(cert) == cert.present /\ Truthy(identifier(cert))
        dedicated == models.zatcaCertificate
        posConfig == config.zatca_certificate
        posSession == models.posSession
    IN  ret.op = "getCertificateSignatureSync" =>
            /\ carries(dedicated) =>
                    /\ ret.path = "zatca.certificate"
                    /\ ret.text = Substring(identifier(dedicated), 88)
            /\ (~carries(dedicated) /\ carries(posConfig)) =>
                    /\ ret.path = "pos.config"
                    /\ ret.text = Substring(identifier(posConfig), 88)
            /\ (~carries(dedicated) /\ ~carries(posConfig) /\ carries(posSession)) =>
                    /\ ret.path = "pos.session"
                    /\ ret.text = Substring(identifier(posSession), 88)


\* no record of the three sources carries the field(s) asked for
NoSourceHasKey ==
    /\ ~Truthy(models.zatcaCertificate.public_key)
    /\ ~Truthy(config.zatca_certificate.public_key)
    /\ ~Truthy(models.posSession.public_key)
NoSourceHasIdentifier ==
    \A cert \in {models.zatcaCertificate, config.zatca_certificate, models.posSession} :
        /\ ~Truthy(cert.certificate_signature)
        /\ ~Truthy(cert.serial_number)
        /\ ~Truthy(cert.certificate_id)

\* the first 64 characters of the encoding of marker + tax number, or
\* "failed" when the encoding step of the build rejects the text
TaxNumberPlaceholder(marker) ==
    LET cut(text) == IF text.threw THEN [failed |-> TRUE, value |-> <<>>]
                     ELSE [failed |-> FALSE, value |-> Substring(text.value, 64)]
    IN  cut(EncodeBase64(marker \o ToStr(company.vat)))

\* C21: when no source yields a public key, getPublicKeySync returns the
\* placeholder made of the fixed marker and the seller's tax number, at most
\* 64 characters, the same at every clock value; likewise, on its own
\* sources and marker, getCertificateSignatureSync.  The placeholder made
\* from the wall clock is returned only when the tax-number placeholder
\* cannot be built.
C21_PlaceholderFromTaxNumber ==
    LET holds(marker) ==
            /\ ret.path \in {"placeholder", "clock"}
            /\ ret.path = "clock" <=> TaxNumberPlaceholder(marker).failed
            /\ ret.path = "placeholder" =>
                    /\ ret.text = TaxNumberPlaceholder(marker).value
                    /\ Len(ret.text) <= 64
                    /\ ret.repeat => ret.before = ret.text
    IN  /\ (ret.op = "getPublicKeySync" /\ NoSourceHasKey) => holds(S_ZATCA_PUBLIC_KEY)
        /\ (ret.op = "getCertificateSignatureSync" /\ NoSourceHasIdentifier) =>
                holds(S_ZATCA_CERT)

\* both resolvers were asked twice, at two clock values, with no source:
\* a placeholder cut to 64 characters came back, in another run the one of
\* the clock
C21_Witness ==
    /\ ret.op = "getCertificateSignatureSync" /\ NoSourceHasIdentifier
    /\ ret.repeat /\ ret.since < ret.at
    /\ ret.path = "placeholder"
    /\ Len(ret.text) = 64
    /\ Len(EncodeBase64(S_ZATCA_CERT \o ToStr(company.vat)).value) > 64
C21_WitnessClock ==
    /\ ret.op = "getPublicKeySync" /\ NoSourceHasKey
    /\ ret.path = "clock"

C17_LengthByteTruncated ==
    LET bytes == TextEncoderEncode(company.name)
        n == Len(bytes)
        asClaimed(buffer) ==
            /\ Len(buffer) >= n + 3
            /\ buffer[1] = 1
            /\ buffer[2] = n % 256
            /\ SubSeq(buffer, 3, n + 2) = bytes
            /\ buffer[n + 3] = 2
    IN  (ret.op = "compute_sa_qr_code" /\ build = "addon" /\ shouldUsedirectMode
            /\ n > MaxByte)
        => /\ ~ret.threw
           /\ ret.path = "enhanced"
           /\ asClaimed(Atob(ret.text))


(***************************************************************************)
(* Properties of the nine-field payload as a whole                         *)
(***************************************************************************)
\* the signature generateDigitalSignatureSync derives from a fingerprint,
\* with the signed record's timestamp taken at tick t
SignatureOf(invoiceHash, t) ==
    S_ZATCA_MARK
        \o _generateDeterministicSignatureSync(_prepareSignatureInputSync(invoiceHash, t)).value

\* C25 (as claimed): in a nine-field payload the signature of tag 7 is the
\* one derived from the fingerprint of tag 6, also when the fingerprint is
\* the fallback made from the wall clock.
C25_SignatureOfTag6 ==
    (ret.op = "compute_sa_qr_code" /\ ~ret.threw /\ ret.path = "enhanced") =>
        LET consistent(tag6, tag7) == \E t \in 0..MaxTick : tag7 = SignatureOf(tag6, t)
        IN  consistent(PayloadField(ret.text, 6), PayloadField(ret.text, 7))

\* the payload the receipt-header call site builds at ticks t1 <= t2 (root
\* copy: generateQRDataSync, then _convertQRDataToBase64String), and the
\* one the compute_sa_qr_code call site builds (add-on copy)
HeaderSitePayload(t1, t2) ==
    LET converted(qr_values) ==
            IF qr_values.isNull THEN <<>>
            ELSE _convertQRDataToBase64String(qr_values.values)
    IN  converted(generateQRDataSync(t1, t2))
QrCodeSitePayload(t1, t2) ==
    generateEnhancedQRDataSync(company.name, company.vat, order.date_order,
                               get_total_with_tax, get_total_tax, t1, t2).value

\* C28 (as claimed): for the same order and configuration the nine-field
\* payload of the receipt-header call site and that of the
\* compute_sa_qr_code call site are the same, field by field; tag 3 is the
\* timestamp formatted in Riyadh time.
C28_CallSitesAgree ==
    LET sameAs(other(_, _)) == \E t1 \in 0..MaxTick, t2 \in 0..MaxTick :
                            t1 <= t2 /\ ret.text = other(t1, t2)
        riyadh == PayloadField(ret.text, 3) = KsaTimestamp(order.date_order)
    IN  /\ (ret.op = "getReceiptHeaderData" /\ ret.path = "qr") =>
                sameAs(QrCodeSitePayload) /\ riyadh
        /\ (ret.op = "compute_sa_qr_code" /\ ret.path = "enhanced") =>
                sameAs(HeaderSitePayload) /\ riyadh

====
